---- MODULE Spec2Model ----
(***************************************************************************)
(* A model of prettyprinter-ts: the document algebra (Doc), the flatten    *)
(* analysis (Flatten), the page width helper (PageWidth), the layout       *)
(* algorithms (Layout) and the string renderer (Render).                   *)
(*                                                                         *)
(* Representation.  A JavaScript string is a sequence of one-character     *)
(* strings, so that its length, its concatenation and its characters are   *)
(* those of the program.  A tagged value is a record with a tag field.     *)
(* A function held by a reactive document (Column, WithPageWidth, Nesting) *)
(* is a record naming the closure and its captured values; Apply runs it.  *)
(* A ribbon fraction is a pair <<numerator, denominator>>.                 *)
(***************************************************************************)
EXTENDS Integers, Sequences, FiniteSets, TLC

VARIABLES
  theDoc,      \* the document built so far
  steps,       \* the number of combinators applied to build it
  wellFormed,  \* it holds no Fail, and every Union of it comes from group or softLine
  lastOp,      \* the operation that gave the current state
  options,     \* LayoutOptions.pageWidth of the last layout
  algorithm,   \* the layout algorithm of the last layout
  laidOut,     \* the SimpleDocStream of the last layout
  rendered,    \* what renderS did with it
  rwArgs,      \* the arguments of a call of remainingWidth
  rwResult,    \* what the call returned
  operand,     \* the argument of the last combinator applied
  theStream,   \* a stream built by the constructors of SimpleDocStream
  built        \* how many times the last measured layout reached the end of the document

vars == <<theDoc, steps, wellFormed, lastOp, options, algorithm, laidOut, rendered,
          rwArgs, rwResult, operand, theStream, built>>

\* Bounds of the model
MaxDocSteps == 2

MaxWidth == 3

MaxLineLength == 4

\* the longest array handed to list, and the widest page it is laid out on
MaxListLen == 3

MaxListWidth == 13

\* the number of combinators applied to a document given to optimize
MaxOptimizeSteps == 3

\* the number of words given to fillSep
MaxWords == 4

\* the number of nodes before the end of a stream built by hand
MaxStreamLen == 4

\* the length of the strings given to words and reflow
MaxStringLen == 3

\* the columns at which the reactive nodes of a document are asked for theirs
MaxColumnTried == 4

\* the number of combinators applied to a document of the hang example
MaxHangSteps == 3

\* half the number of page widths tried around the width of the fun example
FunSlack == 6

\* the page width and the nesting depth of the example in the documentation of layoutSmart
FunWidth == 26

FunDepth == 5

NoValue == [tag |-> "NoValue"]

(***************************************************************************)
(* Doc: constructors                                                       *)
(***************************************************************************)
Fail == [tag |-> "Fail"]

Empty == [tag |-> "Empty"]

Char(char) == [tag |-> "Char", char |-> char]

Text(text) == [tag |-> "Text", text |-> text]

Line == [tag |-> "Line"]

FlatAlt(x, y) == [tag |-> "FlatAlt", x |-> x, y |-> y]

Cat(x, y) == [tag |-> "Cat", x |-> x, y |-> y]

Nest(indent, doc) == [tag |-> "Nest", indent |-> indent, doc |-> doc]

Union(x, y) == [tag |-> "Union", x |-> x, y |-> y]

Column(react) == [tag |-> "Column", react |-> react]

WithPageWidth(react) == [tag |-> "WithPageWidth", react |-> react]

Nesting(react) == [tag |-> "Nesting", react |-> react]

Annotated(annotation, doc) ==
  [tag |-> "Annotated", annotation |-> annotation, doc |-> doc]

(***************************************************************************)
(* PageWidth                                                               *)
(***************************************************************************)
AvailablePerLine(lineWidth, ribbonFraction) ==
  [tag |-> "AvailablePerLine", lineWidth |-> lineWidth,
   ribbonFraction |-> ribbonFraction]

Unbounded == [tag |-> "Unbounded"]

min(x, y) == IF x <= y THEN x ELSE y

max(x, y) == IF x >= y THEN x ELSE y

\* Math.floor(lineLength * ribbonFraction), the fraction being rf[1] / rf[2]
floorMul(lineLength, rf) == (lineLength * rf[1]) \div rf[2]

\* A variant of remainingWidth that does not clamp the ribbon width.
remainingWidthUnclamped(lineLength, ribbonFraction, lineIndent, currentColumn) ==
  LET columnsLeftInLine == lineLength - currentColumn
      ribbonWidth == floorMul(lineLength, ribbonFraction)
      columnsLeftInRibbon == lineIndent + ribbonWidth - currentColumn
  IN  min(columnsLeftInLine, columnsLeftInRibbon)

remainingWidth(lineLength, ribbonFraction, lineIndent, currentColumn) ==
  LET columnsLeftInLine == lineLength - currentColumn
      ribbonWidth == max(0, min(lineLength, floorMul(lineLength, ribbonFraction)))
      columnsLeftInRibbon == lineIndent + ribbonWidth - currentColumn
  IN  min(columnsLeftInLine, columnsLeftInRibbon)

(***************************************************************************)
(* FlattenResult                                                           *)
(***************************************************************************)
Flattened(value) == [tag |-> "Flattened", value |-> value]

AlreadyFlat == [tag |-> "AlreadyFlat"]

NeverFlat == [tag |-> "NeverFlat"]

(***************************************************************************)
(* Doc: nest, and the closures of the reactive documents                   *)
(***************************************************************************)
nest(indent, doc) == IF indent = 0 THEN doc ELSE Nest(indent, doc)

\* (k) => nesting((i) => nest(k - i)(doc))
alignReact(doc) == [fn |-> "align", doc |-> doc]

\* (i) => nest(k - i)(doc)
alignNestingReact(k, doc) == [fn |-> "alignNesting", k |-> k, doc |-> doc]

\* flow(f, flatten)
flowFlatten(f) == [fn |-> "flowFlatten", f |-> f]

\* a producer of a caller: (_) => doc
constReact(doc) == [fn |-> "const", doc |-> doc]

\* `${n}` for an integer n: its decimal digits, after a minus sign when n < 0
RECURSIVE numberToString(_)
numberToString(n) ==
  LET digit(k) == <<"0", "1", "2", "3", "4", "5", "6", "7", "8", "9">>[k + 1]
  IN  IF n < 0 THEN <<"-">> \o numberToString(0 - n)
      ELSE IF n < 10 THEN <<digit(n)>>
      ELSE numberToString(n \div 10) \o <<digit(n % 10)>>

\* a producer of the documentation: (l) => text(`prefix${l}`)
textReact(prefix) == [fn |-> "text", prefix |-> prefix]

RECURSIVE flatten(_)
RECURSIVE Apply(_, _)
RECURSIVE optimizeGo(_, _)

\* A variant of flatten that leaves the fallback of a FlatAlt as it is.
RECURSIVE flattenKeepsAlt(_)
flattenKeepsAlt(doc) ==
  CASE doc.tag \in {"Fail", "Empty", "Char", "Text"} -> doc
    [] doc.tag = "Line" -> Fail
    [] doc.tag = "FlatAlt" -> doc.y
    [] doc.tag = "Cat" -> Cat(flattenKeepsAlt(doc.x), flattenKeepsAlt(doc.y))
    [] doc.tag = "Nest" -> Nest(doc.indent, flattenKeepsAlt(doc.doc))
    [] doc.tag = "Union" -> flattenKeepsAlt(doc.x)
    [] doc.tag = "Column" -> Column(flowFlatten(doc.react))
    [] doc.tag = "WithPageWidth" -> WithPageWidth(flowFlatten(doc.react))
    [] doc.tag = "Nesting" -> Nesting(flowFlatten(doc.react))
    [] doc.tag = "Annotated" -> Annotated(doc.annotation, flattenKeepsAlt(doc.doc))

flatten(doc) ==
  CASE doc.tag \in {"Fail", "Empty", "Char", "Text"} -> doc
    [] doc.tag = "Line" -> Fail
    [] doc.tag = "FlatAlt" -> flatten(doc.y)
    [] doc.tag = "Cat" -> Cat(flatten(doc.x), flatten(doc.y))
    [] doc.tag = "Nest" -> Nest(doc.indent, flatten(doc.doc))
    [] doc.tag = "Union" -> flatten(doc.x)
    [] doc.tag = "Column" -> Column(flowFlatten(doc.react))
    [] doc.tag = "WithPageWidth" -> WithPageWidth(flowFlatten(doc.react))
    [] doc.tag = "Nesting" -> Nesting(flowFlatten(doc.react))
    [] doc.tag = "Annotated" -> Annotated(doc.annotation, flatten(doc.doc))

lineBreak == FlatAlt(Line, Empty)

\* RA.replicate(n, ' ') folded to a string
RECURSIVE textSpaces(_)
textSpaces(n) == IF n <= 0 THEN <<>> ELSE <<" ">> \o textSpaces(n - 1)

spaces(n) ==
  IF n <= 0 THEN Empty
  ELSE IF n = 1 THEN Char(<<" ">>)
  ELSE Text(textSpaces(n))

\* (colStart) => Cat(doc, column((colEnd) => react(colEnd - colStart)))
widthReact(react, doc) == [fn |-> "width", react |-> react, doc |-> doc]

\* (colEnd) => react(colEnd - colStart)
widthEndReact(react, colStart) == [fn |-> "widthEnd", react |-> react, colStart |-> colStart]

\* (w) => spaces(lw - w)
fillReact(lw) == [fn |-> "fill", lw |-> lw]

\* (w) => (w > lw ? nest(lw)(lineBreak) : spaces(lw - w))
fillBreakReact(lw) == [fn |-> "fillBreak", lw |-> lw]

Shallow == "Shallow"

Deep == "Deep"

\* flow(f, go), go being the traversal of optimize at the given depth
flowGo(f, depth) == [fn |-> "flowGo", f |-> f, depth |-> depth]

\* A variant of Apply in which align adds the column to the nesting level it
\* is called with, where Apply replaces that level by the column.
RECURSIVE ApplyAddsColumn(_, _)
ApplyAddsColumn(f, arg) ==
  CASE f.fn = "align" -> Nesting(alignNestingReact(arg, f.doc))
    [] f.fn = "alignNesting" -> nest(f.k, f.doc)
    [] f.fn = "flowFlatten" -> flatten(ApplyAddsColumn(f.f, arg))
    [] f.fn = "const" -> f.doc
    [] f.fn = "width" -> Cat(f.doc, Column(widthEndReact(f.react, arg)))
    [] f.fn = "flowGo" -> optimizeGo(f.depth, ApplyAddsColumn(f.f, arg))
    [] f.fn = "widthEnd" -> ApplyAddsColumn(f.react, arg - f.colStart)
    [] f.fn = "fill" -> spaces(f.lw - arg)
    [] f.fn = "fillBreak" -> IF arg > f.lw THEN nest(f.lw, lineBreak) ELSE spaces(f.lw - arg)
    [] f.fn = "text" -> Text(f.prefix \o numberToString(arg))

\* The call f(arg) of the function a reactive document holds.
Apply(f, arg) ==
  CASE f.fn = "align" -> Nesting(alignNestingReact(arg, f.doc))
    [] f.fn = "alignNesting" -> nest(f.k - arg, f.doc)
    [] f.fn = "flowFlatten" -> flatten(Apply(f.f, arg))
    [] f.fn = "const" -> f.doc
    [] f.fn = "width" -> Cat(f.doc, Column(widthEndReact(f.react, arg)))
    [] f.fn = "flowGo" -> optimizeGo(f.depth, Apply(f.f, arg))
    [] f.fn = "widthEnd" -> Apply(f.react, arg - f.colStart)
    [] f.fn = "fill" -> spaces(f.lw - arg)
    [] f.fn = "fillBreak" -> IF arg > f.lw THEN nest(f.lw, lineBreak) ELSE spaces(f.lw - arg)
    [] f.fn = "text" -> Text(f.prefix \o numberToString(arg))

\* go of optimize(doc)(depth)
optimizeGo(depth, x) ==
  LET go(d) == optimizeGo(depth, d)
      isString(d) == d.tag \in {"Char", "Text"}
      string(d) == IF d.tag = "Char" THEN d.char ELSE d.text
  IN  CASE x.tag \in {"Fail", "Empty", "Char", "Text", "Line"} -> x
        [] x.tag = "FlatAlt" -> FlatAlt(go(x.x), go(x.y))
        [] x.tag = "Cat" ->
             IF x.x.tag = "Empty" THEN go(x.y)
             ELSE IF x.y.tag = "Empty" THEN go(x.x)
             ELSE IF isString(x.x) /\ isString(x.y)
               THEN Text(string(x.x) \o string(x.y))
             ELSE IF isString(x.x) /\ x.y.tag = "Cat" /\ isString(x.y.x)
               THEN go(Cat(go(Cat(x.x, x.y.x)), x.y.y))
             ELSE IF x.x.tag = "Cat" /\ isString(x.x.y)
               THEN go(Cat(x.x.x, go(Cat(x.x.y, x.y))))
             ELSE Cat(go(x.x), go(x.y))
        [] x.tag = "Nest" ->
             IF x.doc.tag \in {"Empty", "Char", "Text"} THEN x.doc
             ELSE IF x.doc.tag = "Nest"
               THEN go(Nest(x.indent + x.doc.indent, x.doc.doc))
             ELSE IF x.indent = 0 THEN go(x.doc)
             ELSE Nest(x.indent, go(x.doc))
        [] x.tag = "Union" -> Union(go(x.x), go(x.y))
        [] x.tag = "Column" ->
             IF depth = Shallow THEN Column(x.react) ELSE Column(flowGo(x.react, depth))
        [] x.tag = "WithPageWidth" ->
             IF depth = Shallow THEN WithPageWidth(x.react)
             ELSE WithPageWidth(flowGo(x.react, depth))
        [] x.tag = "Nesting" ->
             IF depth = Shallow THEN Nesting(x.react) ELSE Nesting(flowGo(x.react, depth))
        [] x.tag = "Annotated" -> Annotated(x.annotation, go(x.doc))

optimize(doc, depth) == optimizeGo(depth, doc)

\* A variant of changesUponFlattening that reports a Line as already flat.
RECURSIVE changesUponFlatteningLineFlat(_)
changesUponFlatteningLineFlat(doc) ==
  CASE doc.tag \in {"Empty", "Char", "Text", "Fail", "Line"} -> AlreadyFlat
    [] doc.tag = "FlatAlt" -> Flattened(flatten(doc.y))
    [] doc.tag = "Cat" ->
         LET a == changesUponFlatteningLineFlat(doc.x)
             b == changesUponFlatteningLineFlat(doc.y)
         IN  (CASE a.tag = "NeverFlat" \/ b.tag = "NeverFlat" -> NeverFlat
                [] a.tag = "Flattened" /\ b.tag = "Flattened" ->
                     Flattened(Cat(a.value, b.value))
                [] a.tag = "Flattened" /\ b.tag = "AlreadyFlat" ->
                     Flattened(Cat(a.value, doc.y))
                [] a.tag = "AlreadyFlat" /\ b.tag = "Flattened" ->
                     Flattened(Cat(doc.x, b.value))
                [] a.tag = "AlreadyFlat" /\ b.tag = "AlreadyFlat" -> AlreadyFlat)
    [] doc.tag = "Nest" ->
         LET r == changesUponFlatteningLineFlat(doc.doc)
         IN  IF r.tag = "Flattened" THEN Flattened(Nest(doc.indent, r.value)) ELSE r
    [] doc.tag = "Union" -> Flattened(doc.x)
    [] doc.tag = "Column" -> Flattened(Column(flowFlatten(doc.react)))
    [] doc.tag = "WithPageWidth" -> Flattened(WithPageWidth(flowFlatten(doc.react)))
    [] doc.tag = "Nesting" -> Flattened(Column(flowFlatten(doc.react)))
    [] doc.tag = "Annotated" ->
         LET r == changesUponFlatteningLineFlat(doc.doc)
         IN  IF r.tag = "Flattened"
             THEN Flattened(Annotated(doc.annotation, r.value)) ELSE r

RECURSIVE changesUponFlattening(_)

changesUponFlattening(doc) ==
  CASE doc.tag \in {"Empty", "Char", "Text", "Fail"} -> AlreadyFlat
    [] doc.tag = "Line" -> NeverFlat
    [] doc.tag = "FlatAlt" -> Flattened(flatten(doc.y))
    [] doc.tag = "Cat" ->
         LET a == changesUponFlattening(doc.x)
             b == changesUponFlattening(doc.y)
         IN  (CASE a.tag = "NeverFlat" \/ b.tag = "NeverFlat" -> NeverFlat
                [] a.tag = "Flattened" /\ b.tag = "Flattened" ->
                     Flattened(Cat(a.value, b.value))
                [] a.tag = "Flattened" /\ b.tag = "AlreadyFlat" ->
                     Flattened(Cat(a.value, doc.y))
                [] a.tag = "AlreadyFlat" /\ b.tag = "Flattened" ->
                     Flattened(Cat(doc.x, b.value))
                [] a.tag = "AlreadyFlat" /\ b.tag = "AlreadyFlat" -> AlreadyFlat)
    [] doc.tag = "Nest" ->
         LET r == changesUponFlattening(doc.doc)
         IN  IF r.tag = "Flattened" THEN Flattened(Nest(doc.indent, r.value)) ELSE r
    [] doc.tag = "Union" -> Flattened(doc.x)
    [] doc.tag = "Column" -> Flattened(Column(flowFlatten(doc.react)))
    [] doc.tag = "WithPageWidth" -> Flattened(WithPageWidth(flowFlatten(doc.react)))
    [] doc.tag = "Nesting" -> Flattened(Column(flowFlatten(doc.react)))
    [] doc.tag = "Annotated" ->
         LET r == changesUponFlattening(doc.doc)
         IN  IF r.tag = "Flattened"
             THEN Flattened(Annotated(doc.annotation, r.value)) ELSE r

(***************************************************************************)
(* Doc: combinators                                                        *)
(***************************************************************************)
space == Char(<<" ">>)

lbracket == Char(<<"[">>)

rbracket == Char(<<"]">>)

line == FlatAlt(Line, Char(<<" ">>))

softLine == Union(Char(<<" ">>), Line)

softLineBreak == Union(Empty, Line)

hardLine == Line

\* A variant of group that treats a FlatAlt like any other document.
groupWithoutFlatAlt(doc) ==
  LET r == changesUponFlattening(doc)
  IN  CASE doc.tag = "Union" -> doc
        [] r.tag = "Flattened" -> Union(r.value, doc)
        [] OTHER -> doc

\* A variant of group that puts the default of a FlatAlt first.
groupDefaultFirst(doc) ==
  LET group_(a) ==
        LET r == changesUponFlattening(a)
        IN  CASE r.tag = "Flattened" -> Union(r.value, a)
              [] r.tag = "AlreadyFlat" -> a
              [] r.tag = "NeverFlat" -> a
  IN  CASE doc.tag = "FlatAlt" ->
             LET r == changesUponFlattening(doc.y)
             IN  (CASE r.tag = "Flattened" -> Union(doc.x, r.value)
                    [] r.tag = "AlreadyFlat" -> Union(doc.x, doc.y)
                    [] r.tag = "NeverFlat" -> doc.x)
        [] doc.tag = "Union" -> doc
        [] OTHER -> group_(doc)

group(doc) ==
  LET group_(a) ==
        LET r == changesUponFlattening(a)
        IN  CASE r.tag = "Flattened" -> Union(r.value, a)
              [] r.tag = "AlreadyFlat" -> a
              [] r.tag = "NeverFlat" -> a
  IN  CASE doc.tag = "FlatAlt" ->
             LET r == changesUponFlattening(doc.y)
             IN  (CASE r.tag = "Flattened" -> Union(r.value, doc.x)
                    [] r.tag = "AlreadyFlat" -> Union(doc.y, doc.x)
                    [] r.tag = "NeverFlat" -> doc.x)
        [] doc.tag = "Union" -> doc
        [] OTHER -> group_(doc)

flatAlt(x, y) == FlatAlt(x, y)

column(react) == Column(react)

nesting(react) == Nesting(react)

align(doc) == column(alignReact(doc))

hang(indent, doc) == align(nest(indent, doc))

appendWithSpace(x, y) == Cat(x, Cat(space, y))

appendWithLine(x, y) == Cat(x, Cat(line, y))

appendWithLineBreak(x, y) == Cat(x, Cat(lineBreak, y))

appendWithSoftLine(x, y) == Cat(x, Cat(softLine, y))

appendWithSoftLineBreak(x, y) == Cat(x, Cat(softLineBreak, y))

\* f(x, y) for the binary combinator named f
appendBy(f, x, y) ==
  CASE f = "Cat" -> Cat(x, y)
    [] f = "appendWithSpace" -> appendWithSpace(x, y)
    [] f = "appendWithLine" -> appendWithLine(x, y)
    [] f = "appendWithLineBreak" -> appendWithLineBreak(x, y)
    [] f = "appendWithSoftLine" -> appendWithSoftLine(x, y)
    [] f = "appendWithSoftLineBreak" -> appendWithSoftLineBreak(x, y)

RECURSIVE concatWith(_, _)
concatWith(f, docs) ==
  IF Len(docs) = 0 THEN Empty
  ELSE IF Len(docs) = 1 THEN docs[1]
  ELSE appendBy(f, Head(docs), concatWith(f, Tail(docs)))

hsep(docs) == concatWith("appendWithSpace", docs)

vsep(docs) == concatWith("appendWithLine", docs)

hcat(docs) == concatWith("Cat", docs)

vcat(docs) == concatWith("appendWithLineBreak", docs)

cat(docs) == group(vcat(docs))

encloseSep(left, right, sep, docs) ==
  IF Len(docs) = 0 THEN Cat(left, right)
  ELSE IF Len(docs) = 1 THEN Cat(left, Cat(docs[1], right))
  ELSE LET xs == [n \in 1..Len(docs) |->
                    Cat(IF n = 1 THEN left ELSE sep, docs[n])]
       IN  Cat(cat(xs), right)

list(docs) ==
  group(encloseSep(flatAlt(Char(<<"[", " ">>), lbracket),
                   flatAlt(Char(<<" ", "]">>), rbracket),
                   Char(<<",", " ">>), docs))

lparen == Char(<<"(">>)

rparen == Char(<<")">>)

comma == Char(<<",">>)

tupled(docs) ==
  group(encloseSep(flatAlt(Char(<<"(", " ">>), lparen),
                   flatAlt(Char(<<" ", ")">>), rparen),
                   Char(<<",", " ">>), docs))

\* width(react)(doc)
widthOf(react, doc) == column(widthReact(react, doc))

fill(lw, x) == widthOf(fillReact(lw), x)

fillBreak(lw, x) == widthOf(fillBreakReact(lw), x)

fillSep(docs) == concatWith("appendWithSoftLine", docs)

punctuate(punctuator, docs) ==
  [i \in 1..Len(docs) |-> IF Len(docs) = i THEN docs[i] ELSE Cat(docs[i], punctuator)]

indent(n, doc) == hang(n, Cat(spaces(n), doc))

\* s.split(char), char being one character
RECURSIVE split(_, _)
split(s, char) ==
  IF \A n \in 1..Len(s) : s[n] # char THEN <<s>>
  ELSE LET n == CHOOSE m \in 1..Len(s) :
                  s[m] = char /\ \A l \in 1..(m - 1) : s[l] # char
       IN  <<SubSeq(s, 1, n - 1)>> \o split(SubSeq(s, n + 1, Len(s)), char)

words(s) == LET parts == split(s, " ") IN [n \in 1..Len(parts) |-> Text(parts[n])]

reflow(s) == fillSep(words(s))

(***************************************************************************)
(* SimpleDocStream                                                         *)
(***************************************************************************)
SFail == [tag |-> "SFail"]

SEmpty == [tag |-> "SEmpty"]

SChar(char, stream) == [tag |-> "SChar", char |-> char, stream |-> stream]

SText(text, stream) == [tag |-> "SText", text |-> text, stream |-> stream]

SLine(indentation, stream) ==
  [tag |-> "SLine", indentation |-> indentation, stream |-> stream]

SAnnPush(annotation, stream) ==
  [tag |-> "SAnnPush", annotation |-> annotation, stream |-> stream]

\* A variant of SAnnPop that adds no node to the stream.
SAnnPopElided(stream) == stream

SAnnPop(stream) == [tag |-> "SAnnPop", stream |-> stream]

(***************************************************************************)
(* Layout: the pipeline, the fitting predicates and the algorithms         *)
(***************************************************************************)
Nil == [tag |-> "Nil"]

Cons(indentation, document, pipeline) ==
  [tag |-> "Cons", indentation |-> indentation, document |-> document,
   pipeline |-> pipeline]

UndoAnn(pipeline) == [tag |-> "UndoAnn", pipeline |-> pipeline]

none == [tag |-> "None"]

some(value) == [tag |-> "Some", value |-> value]

\* A variant of initialIndentation that looks past characters and texts.
RECURSIVE initialIndentationPastText(_)
initialIndentationPastText(stream) ==
  CASE stream.tag \in {"SFail", "SEmpty"} -> none
    [] stream.tag = "SLine" -> some(stream.indentation)
    [] stream.tag \in {"SChar", "SText", "SAnnPush", "SAnnPop"} ->
         initialIndentationPastText(stream.stream)

RECURSIVE initialIndentation(_)
initialIndentation(stream) ==
  CASE stream.tag \in {"SFail", "SEmpty", "SChar", "SText"} -> none
    [] stream.tag = "SLine" -> some(stream.indentation)
    [] stream.tag \in {"SAnnPush", "SAnnPop"} -> initialIndentation(stream.stream)

\* A variant of failsOnFirstLine that looks past the first line break.
RECURSIVE failsOnAnyLine(_)
failsOnAnyLine(stream) ==
  CASE stream.tag = "SFail" -> TRUE
    [] stream.tag = "SEmpty" -> FALSE
    [] OTHER -> failsOnAnyLine(stream.stream)

RECURSIVE failsOnFirstLine(_)
failsOnFirstLine(stream) ==
  CASE stream.tag = "SFail" -> TRUE
    [] stream.tag \in {"SEmpty", "SLine"} -> FALSE
    [] OTHER -> failsOnFirstLine(stream.stream)

\* A variant of fits of layoutPretty that rejects a layout with a line break.
RECURSIVE fitsPrettyStrict(_, _)
fitsPrettyStrict(width, stream) ==
  IF width < 0 THEN FALSE
  ELSE CASE stream.tag = "SFail" -> FALSE
         [] stream.tag = "SEmpty" -> TRUE
         [] stream.tag = "SChar" -> fitsPrettyStrict(width - 1, stream.stream)
         [] stream.tag = "SText" ->
              fitsPrettyStrict(width - Len(stream.text), stream.stream)
         [] stream.tag = "SLine" -> FALSE
         [] stream.tag \in {"SAnnPush", "SAnnPop"} ->
              fitsPrettyStrict(width, stream.stream)

\* A variant of fits of layoutPretty that wants one column left at the end.
RECURSIVE fitsPrettyTight(_, _)
fitsPrettyTight(width, stream) ==
  IF width < 1 THEN FALSE
  ELSE CASE stream.tag = "SFail" -> FALSE
         [] stream.tag = "SEmpty" -> TRUE
         [] stream.tag = "SChar" -> fitsPrettyTight(width - 1, stream.stream)
         [] stream.tag = "SText" ->
              fitsPrettyTight(width - Len(stream.text), stream.stream)
         [] stream.tag = "SLine" -> TRUE
         [] stream.tag \in {"SAnnPush", "SAnnPop"} ->
              fitsPrettyTight(width, stream.stream)

\* fits of layoutPretty
RECURSIVE fitsPretty(_, _)
fitsPretty(width, stream) ==
  IF width < 0 THEN FALSE
  ELSE CASE stream.tag = "SFail" -> FALSE
         [] stream.tag = "SEmpty" -> TRUE
         [] stream.tag = "SChar" -> fitsPretty(width - 1, stream.stream)
         [] stream.tag = "SText" -> fitsPretty(width - Len(stream.text), stream.stream)
         [] stream.tag = "SLine" -> TRUE
         [] stream.tag \in {"SAnnPush", "SAnnPop"} -> fitsPretty(width, stream.stream)

\* A variant of go of layoutSmart's fits that takes no width for a text.
RECURSIVE goSmartTextFree(_, _, _, _)
goSmartTextFree(lineWidth, minNestingLevel, width, stream) ==
  IF width < 0 THEN FALSE
  ELSE CASE stream.tag = "SFail" -> FALSE
         [] stream.tag = "SEmpty" -> TRUE
         [] stream.tag = "SChar" ->
              goSmartTextFree(lineWidth, minNestingLevel, width - 1, stream.stream)
         [] stream.tag = "SText" ->
              goSmartTextFree(lineWidth, minNestingLevel, width, stream.stream)
         [] stream.tag = "SLine" ->
              IF minNestingLevel < stream.indentation
              THEN goSmartTextFree(lineWidth, minNestingLevel,
                                   stream.indentation - lineWidth, stream.stream)
              ELSE TRUE
         [] stream.tag \in {"SAnnPush", "SAnnPop"} ->
              goSmartTextFree(lineWidth, minNestingLevel, width, stream.stream)

\* go of layoutSmart's fits
RECURSIVE goSmart(_, _, _, _)
goSmart(lineWidth, minNestingLevel, width, stream) ==
  IF width < 0 THEN FALSE
  ELSE CASE stream.tag = "SFail" -> FALSE
         [] stream.tag = "SEmpty" -> TRUE
         [] stream.tag = "SChar" ->
              goSmart(lineWidth, minNestingLevel, width - 1, stream.stream)
         [] stream.tag = "SText" ->
              goSmart(lineWidth, minNestingLevel, width - Len(stream.text), stream.stream)
         [] stream.tag = "SLine" ->
              IF minNestingLevel < stream.indentation
              THEN goSmart(lineWidth, minNestingLevel,
                           stream.indentation - lineWidth, stream.stream)
              ELSE TRUE
         [] stream.tag \in {"SAnnPush", "SAnnPop"} ->
              goSmart(lineWidth, minNestingLevel, width, stream.stream)

\* fits of layoutSmart
fitsSmart(lineWidth, ribbonFraction, lineIndent, currentColumn, initialIndentY, stream) ==
  LET availableWidth ==
        remainingWidth(lineWidth, ribbonFraction, lineIndent, currentColumn)
      minNestingLevel ==
        IF initialIndentY.tag = "None" THEN currentColumn
        ELSE min(initialIndentY.value, currentColumn)
  IN  goSmart(lineWidth, minNestingLevel, availableWidth, stream)

\* The fitting predicates handed to layoutWadlerLeijen, by name.
fitsOfUnbounded == [kind |-> "Unbounded"]

fitsOfPretty(lw, rfrac) == [kind |-> "Pretty", lw |-> lw, rfrac |-> rfrac]

fitsOfSmart(lineWidth, ribbonFraction) ==
  [kind |-> "Smart", lineWidth |-> lineWidth, ribbonFraction |-> ribbonFraction]

\* fits(lineIndent, currentColumn, initialIndentY, stream)
callFits(fits, lineIndent, currentColumn, initialIndentY, stream) ==
  CASE fits.kind = "Unbounded" -> ~failsOnFirstLine(stream)
    [] fits.kind = "Pretty" ->
         fitsPretty(remainingWidth(fits.lw, fits.rfrac, lineIndent, currentColumn), stream)
    [] fits.kind = "Smart" ->
         fitsSmart(fits.lineWidth, fits.ribbonFraction, lineIndent, currentColumn,
                   initialIndentY, stream)

\* A variant of selectNicer that always takes the first layout.
selectNicerLeft(fits, lineIndent, currentColumn, x, y) == x

selectNicer(fits, lineIndent, currentColumn, x, y) ==
  IF callFits(fits, lineIndent, currentColumn, initialIndentation(y), x) THEN x ELSE y

\* The cases of best that call best(nl, cc) again on a new pipeline and add
\* nothing to the stream (Empty, FlatAlt, Cat, Nest, Column, WithPageWidth,
\* Nesting), run as a loop: the pipeline on which best next emits or chooses.
RECURSIVE bestTailCalls(_, _, _)
bestTailCalls(pageWidth, cc, pipeline) ==
  IF pipeline.tag # "Cons" THEN pipeline
  ELSE CASE pipeline.document.tag = "Empty" ->
              bestTailCalls(pageWidth, cc, pipeline.pipeline)
         [] pipeline.document.tag = "FlatAlt" ->
              bestTailCalls(pageWidth, cc,
                Cons(pipeline.indentation, pipeline.document.x, pipeline.pipeline))
         [] pipeline.document.tag = "Cat" ->
              bestTailCalls(pageWidth, cc,
                Cons(pipeline.indentation, pipeline.document.x,
                     Cons(pipeline.indentation, pipeline.document.y, pipeline.pipeline)))
         [] pipeline.document.tag = "Nest" ->
              bestTailCalls(pageWidth, cc,
                Cons(pipeline.indentation + pipeline.document.indent,
                     pipeline.document.doc, pipeline.pipeline))
         [] pipeline.document.tag = "Column" ->
              bestTailCalls(pageWidth, cc,
                Cons(pipeline.indentation, Apply(pipeline.document.react, cc),
                     pipeline.pipeline))
         [] pipeline.document.tag = "WithPageWidth" ->
              bestTailCalls(pageWidth, cc,
                Cons(pipeline.indentation, Apply(pipeline.document.react, pageWidth),
                     pipeline.pipeline))
         [] pipeline.document.tag = "Nesting" ->
              bestTailCalls(pageWidth, cc,
                Cons(pipeline.indentation,
                     Apply(pipeline.document.react, pipeline.indentation),
                     pipeline.pipeline))
         [] OTHER -> pipeline

\* SLine(_i, x) of the Line case
\* A variant of the Line case of best that emits no SLine.
bestLineDropped(i, x) == x

\* A variant of the Line case of best that always indents by the frame.
bestLineOfFrame(i, x) == SLine(i, x)

\* A variant of the Line case of best that never indents.
bestLineFlush(i, x) == SLine(0, x)

bestLine(i, x) == SLine(IF x.tag = "SEmpty" \/ x.tag = "SLine" THEN 0 ELSE i, x)

RECURSIVE best(_, _, _, _, _)
best(fits, pageWidth, nl, cc, pipeline) ==
  LET p == bestTailCalls(pageWidth, cc, pipeline)
  IN  CASE p.tag = "Nil" -> SEmpty
        [] p.tag = "UndoAnn" -> SAnnPop(best(fits, pageWidth, nl, cc, p.pipeline))
        [] p.document.tag = "Fail" -> SFail
        [] p.document.tag = "Char" ->
             SChar(p.document.char, best(fits, pageWidth, nl, cc + 1, p.pipeline))
        [] p.document.tag = "Text" ->
             SText(p.document.text,
                   best(fits, pageWidth, nl, cc + Len(p.document.text), p.pipeline))
        [] p.document.tag = "Line" ->
             bestLine(p.indentation,
                      best(fits, pageWidth, p.indentation, p.indentation, p.pipeline))
        [] p.document.tag = "Union" ->
             selectNicer(fits, nl, cc,
               best(fits, pageWidth, nl, cc,
                    Cons(p.indentation, p.document.x, p.pipeline)),
               best(fits, pageWidth, nl, cc,
                    Cons(p.indentation, p.document.y, p.pipeline)))
        [] p.document.tag = "Annotated" ->
             SAnnPush(p.document.annotation,
                      best(fits, pageWidth, nl, cc,
                           Cons(p.indentation, p.document.doc, UndoAnn(p.pipeline))))

\* How many times the calls of best that one call of best makes reach the Nil
\* case: the Union case computes _x and _y, each by a call of best on the whole
\* rest of the pipeline, before selectNicer sees either.
RECURSIVE bestReachesNil(_, _, _)
bestReachesNil(pageWidth, cc, pipeline) ==
  LET p == bestTailCalls(pageWidth, cc, pipeline)
  IN  CASE p.tag = "Nil" -> 1
        [] p.tag = "UndoAnn" -> bestReachesNil(pageWidth, cc, p.pipeline)
        [] p.document.tag = "Fail" -> 0
        [] p.document.tag = "Char" -> bestReachesNil(pageWidth, cc + 1, p.pipeline)
        [] p.document.tag = "Text" ->
             bestReachesNil(pageWidth, cc + Len(p.document.text), p.pipeline)
        [] p.document.tag = "Line" ->
             bestReachesNil(pageWidth, p.indentation, p.pipeline)
        [] p.document.tag = "Union" ->
             bestReachesNil(pageWidth, cc, Cons(p.indentation, p.document.x, p.pipeline))
               + bestReachesNil(pageWidth, cc,
                                Cons(p.indentation, p.document.y, p.pipeline))
        [] p.document.tag = "Annotated" ->
             bestReachesNil(pageWidth, cc,
                            Cons(p.indentation, p.document.doc, UndoAnn(p.pipeline)))

layoutWadlerLeijen(fits, pageWidth, doc) ==
  best(fits, pageWidth, 0, 0, Cons(0, doc, Nil))

layoutUnbounded(doc) == layoutWadlerLeijen(fitsOfUnbounded, Unbounded, doc)

layoutPretty(doc, pageWidth) ==
  CASE pageWidth.tag = "AvailablePerLine" ->
         layoutWadlerLeijen(fitsOfPretty(pageWidth.lineWidth, pageWidth.ribbonFraction),
                            pageWidth, doc)
    [] pageWidth.tag = "Unbounded" -> layoutUnbounded(doc)

\* A variant of layoutSmart that looks no further than layoutPretty does.
layoutSmartAsPretty(doc, pageWidth) == layoutPretty(doc, pageWidth)

layoutSmart(doc, pageWidth) ==
  CASE pageWidth.tag = "AvailablePerLine" ->
         layoutWadlerLeijen(fitsOfSmart(pageWidth.lineWidth, pageWidth.ribbonFraction),
                            pageWidth, doc)
    [] pageWidth.tag = "Unbounded" -> layoutUnbounded(doc)

RECURSIVE scan(_, _)
scan(col, docs) ==
  IF Len(docs) = 0 THEN SEmpty
  ELSE LET d == Head(docs)
           ds == Tail(docs)
       IN  CASE d.tag = "Fail" -> SFail
             [] d.tag = "Empty" -> scan(col, ds)
             [] d.tag = "Char" -> SChar(d.char, scan(col + 1, ds))
             [] d.tag = "Text" -> SText(d.text, scan(col + Len(d.text), ds))
             [] d.tag = "FlatAlt" -> scan(col, <<d.x>> \o ds)
             [] d.tag = "Line" -> SLine(0, scan(0, ds))
             [] d.tag = "Cat" -> scan(col, <<d.x, d.y>> \o ds)
             [] d.tag = "Nest" -> scan(col, <<d.doc>> \o ds)
             [] d.tag = "Union" -> scan(col, <<d.y>> \o ds)
             [] d.tag = "Column" -> scan(col, <<Apply(d.react, col)>> \o ds)
             [] d.tag = "WithPageWidth" -> scan(col, <<Apply(d.react, Unbounded)>> \o ds)
             [] d.tag = "Nesting" -> scan(col, <<Apply(d.react, 0)>> \o ds)
             [] d.tag = "Annotated" -> scan(col, <<d.doc>> \o ds)

\* A variant of layoutCompact that goes through layoutWadlerLeijen.
layoutCompactByBest(doc) == layoutUnbounded(doc)

layoutCompact(doc) == scan(0, <<doc>>)

(***************************************************************************)
(* Render                                                                  *)
(***************************************************************************)
\* the outcome of a call: a string returned, or an error thrown
Returned(value) == [threw |-> FALSE, value |-> value]

Thrown == [threw |-> TRUE]

\* A variant of replicateSpace that gives -n spaces for a negative n.
RECURSIVE replicateSpaceOfMagnitude(_)
replicateSpaceOfMagnitude(n) ==
  IF n = 0 THEN <<>>
  ELSE <<" ">> \o replicateSpaceOfMagnitude(IF n < 0 THEN n + 1 ELSE n - 1)

\* RA.replicate(n, ' ') folded to a string: empty for n <= 0
RECURSIVE replicateSpace(_)
replicateSpace(n) == IF n <= 0 THEN <<>> ELSE <<" ">> \o replicateSpace(n - 1)

\* A variant of renderS that renders an SFail as the empty string.
RECURSIVE renderSFailAsEmpty(_)
renderSFailAsEmpty(stream) ==
  CASE stream.tag \in {"SFail", "SEmpty"} -> Returned(<<>>)
    [] OTHER ->
         LET rest == renderSFailAsEmpty(stream.stream)
         IN  CASE stream.tag = "SChar" -> Returned(stream.char \o rest.value)
               [] stream.tag = "SText" -> Returned(stream.text \o rest.value)
               [] stream.tag = "SLine" ->
                    Returned(<<"\n">> \o replicateSpace(stream.indentation)
                             \o rest.value)
               [] stream.tag \in {"SAnnPush", "SAnnPop"} -> rest

RECURSIVE renderS(_)
renderS(stream) ==
  CASE stream.tag = "SFail" -> Thrown
    [] stream.tag = "SEmpty" -> Returned(<<>>)
    [] OTHER ->
         LET rest == renderS(stream.stream)
         IN  IF rest.threw THEN Thrown
             ELSE CASE stream.tag = "SChar" -> Returned(stream.char \o rest.value)
                    [] stream.tag = "SText" -> Returned(stream.text \o rest.value)
                    [] stream.tag = "SLine" ->
                         Returned(<<"\n">> \o replicateSpace(stream.indentation)
                                  \o rest.value)
                    [] stream.tag \in {"SAnnPush", "SAnnPop"} -> rest

(***************************************************************************)
(* reAnnotateS and map of SimpleDocStream                                  *)
(***************************************************************************)
\* the functions on annotations handed to map, reAnnotateS and alterAnnotationS
identity == "identity"

toOther == "toOther"

\* f(a)
callAnn(f, a) == IF f = identity THEN a ELSE "other"

RECURSIVE reAnnotateS(_, _)
reAnnotateS(f, stream) ==
  CASE stream.tag = "SFail" -> SFail
    [] stream.tag = "SEmpty" -> SEmpty
    [] stream.tag = "SChar" -> SChar(stream.char, reAnnotateS(f, stream.stream))
    [] stream.tag = "SText" -> SText(stream.text, reAnnotateS(f, stream.stream))
    [] stream.tag = "SLine" -> SLine(stream.indentation, reAnnotateS(f, stream.stream))
    [] stream.tag = "SAnnPop" -> reAnnotateS(f, stream.stream)
    [] stream.tag = "SAnnPush" ->
         SAnnPush(callAnn(f, stream.annotation), reAnnotateS(f, stream.stream))

map(f, fa) == reAnnotateS(f, fa)

(***************************************************************************)
(* alterAnnotationS                                                        *)
(***************************************************************************)
\* what stands for the stream of a call that threw
Absurd == [tag |-> "Absurd"]

\* the functions from an annotation to an optional annotation handed to
\* alterAnnotationS
keepAll == "keepAll"

dropAll == "dropAll"

keepOnly == "keepOnly"

\* f(a): keepAll is (a) => some(a), dropAll is () => none and keepOnly is
\* (a) => (a === 'keep' ? some('kept') : none)
callAlter(f, a) ==
  CASE f = keepAll -> some(a)
    [] f = dropAll -> none
    [] f = keepOnly -> IF a = "keep" THEN some("kept") ELSE none

Remove == "Remove"

DontRemove == "DontRemove"

\* A variant of go of alterAnnotationS that keeps every SAnnPop.
RECURSIVE goAlterKeepsPops(_, _, _)
goAlterKeepsPops(f, stack, stream) ==
  CASE stream.tag = "SFail" -> SFail
    [] stream.tag = "SEmpty" -> SEmpty
    [] stream.tag \in {"SChar", "SText", "SLine"} ->
         LET r == goAlterKeepsPops(f, stack, stream.stream)
         IN  IF r = Absurd THEN Absurd ELSE [stream EXCEPT !.stream = r]
    [] stream.tag = "SAnnPush" ->
         LET b == callAlter(f, stream.annotation)
         IN  IF b.tag = "None"
             THEN goAlterKeepsPops(f, <<Remove>> \o stack, stream.stream)
             ELSE LET r == goAlterKeepsPops(f, <<DontRemove>> \o stack, stream.stream)
                  IN  IF r = Absurd THEN Absurd ELSE SAnnPush(b.value, r)
    [] stream.tag = "SAnnPop" ->
         IF stack = <<>> THEN Absurd
         ELSE LET r == goAlterKeepsPops(f, Tail(stack), stream.stream)
              IN  IF r = Absurd THEN Absurd ELSE SAnnPop(r)

\* go(stack)(stream) of alterAnnotationS(f)
RECURSIVE goAlter(_, _, _)
goAlter(f, stack, stream) ==
  CASE stream.tag = "SFail" -> SFail
    [] stream.tag = "SEmpty" -> SEmpty
    [] stream.tag = "SChar" ->
         LET r == goAlter(f, stack, stream.stream)
         IN  IF r = Absurd THEN Absurd ELSE SChar(stream.char, r)
    [] stream.tag = "SText" ->
         LET r == goAlter(f, stack, stream.stream)
         IN  IF r = Absurd THEN Absurd ELSE SText(stream.text, r)
    [] stream.tag = "SLine" ->
         LET r == goAlter(f, stack, stream.stream)
         IN  IF r = Absurd THEN Absurd ELSE SLine(stream.indentation, r)
    [] stream.tag = "SAnnPush" ->
         LET b == callAlter(f, stream.annotation)
         IN  IF b.tag = "None"
             THEN goAlter(f, <<Remove>> \o stack, stream.stream)
             ELSE LET r == goAlter(f, <<DontRemove>> \o stack, stream.stream)
                  IN  IF r = Absurd THEN Absurd ELSE SAnnPush(b.value, r)
    [] stream.tag = "SAnnPop" ->
         IF stack = <<>> THEN Absurd
         ELSE LET r == goAlter(f, Tail(stack), stream.stream)
              IN  IF r = Absurd THEN Absurd
                  ELSE IF Head(stack) = DontRemove THEN SAnnPop(r) ELSE r

alterAnnotationS(f, stream) ==
  LET r == goAlter(f, <<>>, stream)
  IN  IF r = Absurd THEN Thrown ELSE Returned(r)

(***************************************************************************)
(* removeTrailingWhitespace                                                *)
(***************************************************************************)
RECURSIVE prependEmptyLines(_, _)
prependEmptyLines(withheldLines, stream) ==
  IF withheldLines = <<>> THEN stream
  ELSE prependEmptyLines(SubSeq(withheldLines, 1, Len(withheldLines) - 1),
                         SLine(0, stream))

\* A variant of commitWhitespace that leaves out the withheld spaces after a
\* withheld line break.
commitWhitespaceOfLines(withheldLines, withheldSpaces, stream) ==
  IF withheldLines = <<>>
  THEN CASE withheldSpaces = 0 -> stream
         [] withheldSpaces = 1 -> SChar(<<" ">>, stream)
         [] OTHER -> SText(replicateSpace(withheldSpaces), stream)
  ELSE prependEmptyLines(Tail(withheldLines), SLine(Head(withheldLines), stream))

commitWhitespace(withheldLines, withheldSpaces, stream) ==
  IF withheldLines = <<>>
  THEN CASE withheldSpaces = 0 -> stream
         [] withheldSpaces = 1 -> SChar(<<" ">>, stream)
         [] OTHER -> SText(replicateSpace(withheldSpaces), stream)
  ELSE prependEmptyLines(Tail(withheldLines),
                         SLine(Head(withheldLines) + withheldSpaces, stream))

AnnotationLevel(level) == [tag |-> "AnnotationLevel", level |-> level]

RecordedWhitespace(withheldLines, withheldSpaces) ==
  [tag |-> "RecordedWhitespace", withheldLines |-> withheldLines,
   withheldSpaces |-> withheldSpaces]

\* t.replace(/ *$/, '')
RECURSIVE stripEndingSpaces(_)
stripEndingSpaces(t) ==
  IF t = <<>> \/ t[Len(t)] # " " THEN t
  ELSE stripEndingSpaces(SubSeq(t, 1, Len(t) - 1))

\* go(state)(stream) of removeTrailingWhitespace
RECURSIVE goStrip(_, _)
goStrip(state, stream) ==
  LET heldLines == state.withheldLines
      heldSpaces == state.withheldSpaces
  IN  IF state.tag = "AnnotationLevel"
      THEN CASE stream.tag = "SFail" -> SFail
             [] stream.tag = "SEmpty" -> SEmpty
             [] stream.tag = "SChar" ->
                  LET r == goStrip(state, stream.stream)
                  IN  IF r = Absurd THEN Absurd ELSE SChar(stream.char, r)
             [] stream.tag = "SText" ->
                  LET r == goStrip(state, stream.stream)
                  IN  IF r = Absurd THEN Absurd ELSE SText(stream.text, r)
             [] stream.tag = "SLine" ->
                  LET r == goStrip(state, stream.stream)
                  IN  IF r = Absurd THEN Absurd ELSE SLine(stream.indentation, r)
             [] stream.tag = "SAnnPush" ->
                  LET r == goStrip(AnnotationLevel(state.level + 1), stream.stream)
                  IN  IF r = Absurd THEN Absurd ELSE SAnnPush(stream.annotation, r)
             [] stream.tag = "SAnnPop" ->
                  LET r == IF state.level > 1
                           THEN goStrip(AnnotationLevel(state.level - 1), stream.stream)
                           ELSE goStrip(RecordedWhitespace(<<>>, 0), stream.stream)
                  IN  IF r = Absurd THEN Absurd ELSE SAnnPop(r)
      ELSE CASE stream.tag = "SFail" -> SFail
             [] stream.tag = "SEmpty" -> prependEmptyLines(heldLines, SEmpty)
             [] stream.tag = "SChar" ->
                  IF stream.char = <<" ">>
                  THEN goStrip(RecordedWhitespace(heldLines, heldSpaces + 1), stream.stream)
                  ELSE LET r == goStrip(RecordedWhitespace(<<>>, 0), stream.stream)
                       IN  IF r = Absurd THEN Absurd
                           ELSE commitWhitespace(heldLines, heldSpaces, SChar(stream.char, r))
             [] stream.tag = "SText" ->
                  LET stripped == stripEndingSpaces(stream.text)
                      trailingLength == Len(stream.text) - Len(stripped)
                  IN  IF Len(stripped) = 0
                      THEN goStrip(RecordedWhitespace(heldLines, heldSpaces + Len(stream.text)),
                                   stream.stream)
                      ELSE LET r == goStrip(RecordedWhitespace(<<>>, trailingLength),
                                            stream.stream)
                           IN  IF r = Absurd THEN Absurd
                               ELSE commitWhitespace(heldLines, heldSpaces, SText(stripped, r))
             [] stream.tag = "SLine" ->
                  goStrip(RecordedWhitespace(<<stream.indentation>> \o heldLines, 0),
                          stream.stream)
             [] stream.tag = "SAnnPush" ->
                  LET r == goStrip(AnnotationLevel(1), stream.stream)
                  IN  IF r = Absurd THEN Absurd
                      ELSE commitWhitespace(heldLines, heldSpaces, SAnnPush(stream.annotation, r))
             [] stream.tag = "SAnnPop" -> Absurd

removeTrailingWhitespace(stream) ==
  LET r == goStrip(RecordedWhitespace(<<>>, 0), stream)
  IN  IF r = Absurd THEN Thrown ELSE Returned(r)

(***************************************************************************)
(* The destructors of the tagged sums: a switch on the tag that calls the  *)
(* handler of the variant with the fields of the value, and absurd in its  *)
(* default branch.  A sum is given by the fields of each of its variants.  *)
(***************************************************************************)
PageWidthCases ==
  [AvailablePerLine |-> <<"lineWidth", "ribbonFraction">>, Unbounded |-> <<>>]

DocCases ==
  [Fail |-> <<>>, Empty |-> <<>>, Char |-> <<"char">>, Text |-> <<"text">>,
   Line |-> <<>>, FlatAlt |-> <<"x", "y">>, Cat |-> <<"x", "y">>,
   Nest |-> <<"indent", "doc">>, Union |-> <<"x", "y">>, Column |-> <<"react">>,
   WithPageWidth |-> <<"react">>, Nesting |-> <<"react">>,
   Annotated |-> <<"annotation", "doc">>]

SimpleDocStreamCases ==
  [SFail |-> <<>>, SEmpty |-> <<>>, SChar |-> <<"char", "stream">>,
   SText |-> <<"text", "stream">>, SLine |-> <<"indentation", "stream">>,
   SAnnPush |-> <<"annotation", "stream">>, SAnnPop |-> <<"stream">>]

LayoutPipelineCases ==
  [Nil |-> <<>>, Cons |-> <<"indentation", "document", "pipeline">>,
   UndoAnn |-> <<"pipeline">>]

FlattenResultCases == [Flattened |-> <<"value">>, AlreadyFlat |-> <<>>, NeverFlat |-> <<>>]

\* x._tag, undefined for a value without one
tagOf(x) == IF "tag" \in DOMAIN x THEN x.tag ELSE "undefined"

\* the call patterns[handler](...args)
Called(handler, args) == [handler |-> handler, args |-> args]

\* A variant of match that returns undefined in its default branch.
matchQuietly(cases, x) ==
  IF tagOf(x) \in DOMAIN cases
  THEN Returned(Called(tagOf(x),
                       [k \in DOMAIN cases[tagOf(x)] |-> x[cases[tagOf(x)][k]]]))
  ELSE Returned(NoValue)

\* match(patterns)(x) of a sum with the given cases
match(cases, x) ==
  IF tagOf(x) \in DOMAIN cases
  THEN Returned(Called(tagOf(x),
                       [k \in DOMAIN cases[tagOf(x)] |-> x[cases[tagOf(x)][k]]]))
  ELSE Thrown

(***************************************************************************)
(* Specification Spec: a document is built by the constructors and         *)
(* combinators, one per step, then laid out by one of the four layout      *)
(* algorithms and rendered by renderS, as Render.render does.              *)
(***************************************************************************)
Leaves ==
  {Char(<<"a">>), Text(<<"b", "c">>), hardLine, line, softLine, softLineBreak, Fail}

\* hcat([text('a'), line, text('b')]), the document the documentation of group discusses
lineExample == hcat(<<Text(<<"a">>), line, Text(<<"b">>)>>)

LeftLeaves == {Char(<<"a">>), hardLine}

AltLeaves == {hardLine, Text(<<"b", "c">>), softLine}

NestIndents == {-1, 2}

PageWidths ==
  {Unbounded}
    \cup {AvailablePerLine(w, <<1, 1>>) : w \in 0..MaxWidth}
    \cup {AvailablePerLine(MaxWidth, <<1, 2>>)}

NotLaidOut ==
  /\ options = NoValue
  /\ algorithm = "none"
  /\ laidOut = NoValue
  /\ rendered = NoValue

Init ==
  /\ theDoc \in Leaves \cup {lineExample}
  /\ steps = 0
  /\ wellFormed = (theDoc # Fail)
  /\ lastOp = "init"
  /\ NotLaidOut
  /\ rwArgs = NoValue
  /\ rwResult = NoValue
  /\ operand = NoValue
  /\ theStream = NoValue
  /\ built = NoValue

Build(op, d, wf) ==
  /\ algorithm = "none"
  /\ steps < MaxDocSteps
  /\ theDoc' = d
  /\ steps' = steps + 1
  /\ wellFormed' = wf
  /\ lastOp' = op
  /\ operand' = theDoc
  /\ UNCHANGED <<options, algorithm, laidOut, rendered, rwArgs, rwResult, theStream, built>>

AddRight ==
  \E leaf \in Leaves :
    Build("Cat", Cat(theDoc, leaf), wellFormed /\ leaf # Fail)

AddLeft ==
  \E leaf \in LeftLeaves : Build("Cat", Cat(leaf, theDoc), wellFormed)

WrapNest == \E j \in NestIndents : Build("Nest", Nest(j, theDoc), wellFormed)

WrapGroup == Build("group", group(theDoc), wellFormed)

WrapAnnotated == Build("Annotated", Annotated("ann", theDoc), wellFormed)

WrapAlign == Build("align", align(theDoc), wellFormed)

WrapFlatAlt ==
  \E leaf \in AltLeaves : Build("FlatAlt", FlatAlt(theDoc, leaf), wellFormed)

WrapUnion == Build("Union", Union(Char(<<"a">>), theDoc), FALSE)

Flatten == Build("flatten", flatten(theDoc), FALSE)

Laid(alg, pw, stream) ==
  /\ algorithm = "none"
  /\ algorithm' = alg
  /\ options' = pw
  /\ laidOut' = stream
  /\ rendered' = renderS(stream)
  /\ lastOp' = "render"
  /\ UNCHANGED <<theDoc, steps, wellFormed, rwArgs, rwResult, operand, theStream, built>>

RenderUnbounded == Laid("layoutUnbounded", Unbounded, layoutUnbounded(theDoc))

RenderPretty == \E pw \in PageWidths : Laid("layoutPretty", pw, layoutPretty(theDoc, pw))

RenderSmart == \E pw \in PageWidths : Laid("layoutSmart", pw, layoutSmart(theDoc, pw))

RenderCompact == Laid("layoutCompact", Unbounded, layoutCompact(theDoc))

Next ==
  \/ AddRight
  \/ AddLeft
  \/ WrapNest
  \/ WrapGroup
  \/ WrapAnnotated
  \/ WrapAlign
  \/ WrapFlatAlt
  \/ WrapUnion
  \/ Flatten
  \/ RenderUnbounded
  \/ RenderPretty
  \/ RenderSmart
  \/ RenderCompact

Spec == Init /\ [][Next]_vars

(***************************************************************************)
(* Specification SpecFun: the example in the documentation of layoutSmart.  *)
(* fun is applied up to five times to align(list(words("abcdef ghijklm")))  *)
(* and the document is rendered by layoutPretty or layoutSmart.            *)
(***************************************************************************)
funText == Text(<<"f", "u", "n", "(">>)

fun(doc) == hcat(<<hang(2, hcat(<<funText, softLineBreak, doc>>)), Text(<<")">>)>>)

funWords == <<"a", "b", "c", "d", "e", "f", " ", "g", "h", "i", "j", "k", "l", "m">>

FunPageWidths ==
  {AvailablePerLine(w, <<1, 1>>) : w \in (FunWidth - FunSlack)..(FunWidth + FunSlack)}

InitFun ==
  /\ theDoc = align(list(words(funWords)))
  /\ steps = 0
  /\ wellFormed = TRUE
  /\ lastOp = "init"
  /\ NotLaidOut
  /\ rwArgs = NoValue
  /\ rwResult = NoValue
  /\ operand = NoValue
  /\ theStream = NoValue
  /\ built = NoValue

ApplyFun ==
  /\ algorithm = "none"
  /\ steps < FunDepth
  /\ theDoc' = fun(theDoc)
  /\ steps' = steps + 1
  /\ lastOp' = "fun"
  /\ operand' = theDoc
  /\ UNCHANGED <<wellFormed, options, algorithm, laidOut, rendered, rwArgs, rwResult,
                 theStream, built>>

FunPretty == \E pw \in FunPageWidths : Laid("layoutPretty", pw, layoutPretty(theDoc, pw))

FunSmart == \E pw \in FunPageWidths : Laid("layoutSmart", pw, layoutSmart(theDoc, pw))

NextFun ==
  \/ ApplyFun
  \/ FunPretty
  \/ FunSmart

SpecFun == InitFun /\ [][NextFun]_vars

(***************************************************************************)
(* Specification SpecWidth: calls of PageWidth.remainingWidth.  The ribbon *)
(* fraction is a pair <<numerator, denominator>> with a power of two as    *)
(* denominator, so that the floating-point product is exact.               *)
(***************************************************************************)
RibbonFractions == {<<-1, 2>>, <<0, 1>>, <<1, 4>>, <<1, 2>>, <<3, 4>>, <<1, 1>>, <<3, 2>>}

InitWidth ==
  /\ theDoc = Empty
  /\ steps = 0
  /\ wellFormed = TRUE
  /\ lastOp = "init"
  /\ NotLaidOut
  /\ rwArgs = NoValue
  /\ rwResult = NoValue
  /\ operand = NoValue
  /\ theStream = NoValue
  /\ built = NoValue

CallRemainingWidth ==
  \E lineLength \in 0..MaxLineLength, ribbonFraction \in RibbonFractions,
     lineIndent \in -1..MaxLineLength, printed \in 0..MaxLineLength + 1 :
    /\ rwArgs' = [lineLength |-> lineLength, ribbonFraction |-> ribbonFraction,
                  lineIndent |-> lineIndent, currentColumn |-> lineIndent + printed]
    /\ rwResult' = remainingWidth(lineLength, ribbonFraction, lineIndent,
                                  lineIndent + printed)
    /\ lastOp' = "remainingWidth"
    /\ UNCHANGED <<theDoc, steps, wellFormed, options, algorithm, laidOut, rendered,
                   operand, theStream, built>>

NextWidth == CallRemainingWidth

SpecWidth == InitWidth /\ [][NextWidth]_vars

(***************************************************************************)
(* Specification SpecList: list is applied to an array of text documents   *)
(* that grows by one element per step, and the result is rendered by       *)
(* layoutPretty from column 0.                                             *)
(***************************************************************************)
ListItems == {Text(<<"1">>), Text(<<"2", "0">>)}

ListPageWidths == {AvailablePerLine(w, <<1, 1>>) : w \in 0..MaxListWidth}

InitList ==
  /\ theDoc = list(<<>>)
  /\ steps = 0
  /\ wellFormed = TRUE
  /\ lastOp = "list"
  /\ NotLaidOut
  /\ rwArgs = NoValue
  /\ rwResult = NoValue
  /\ operand = <<>>
  /\ theStream = NoValue
  /\ built = NoValue

AddItem ==
  \E item \in ListItems :
    /\ algorithm = "none"
    /\ Len(operand) < MaxListLen
    /\ operand' = Append(operand, item)
    /\ theDoc' = list(Append(operand, item))
    /\ steps' = steps + 1
    /\ lastOp' = "list"
    /\ UNCHANGED <<wellFormed, options, algorithm, laidOut, rendered, rwArgs, rwResult,
                   theStream, built>>

ListPretty == \E pw \in ListPageWidths : Laid("layoutPretty", pw, layoutPretty(theDoc, pw))

NextList ==
  \/ AddItem
  \/ ListPretty

SpecList == InitList /\ [][NextList]_vars

(***************************************************************************)
(* Specification SpecHang: documents of text, line breaks, nest, align and *)
(* hang, among them the example in the documentation of hang, rendered by  *)
(* layoutPretty and layoutSmart.                                           *)
(***************************************************************************)
lorem == Text(<<"l", "o", "r", "e", "m">>)

ipsum == Text(<<"i", "p", "s", "u", "m">>)

dolor == Text(<<"d", "o", "l", "o", "r">>)

sit == Text(<<"s", "i", "t">>)

\* vsep([text('lorem'), text('ipsum'), hang(4)(vsep([text('dolor'), text('sit')]))])
hangExample == vsep(<<lorem, ipsum, hang(4, vsep(<<dolor, sit>>))>>)

HangSeeds == {sit, Cat(hardLine, sit), vsep(<<dolor, sit>>), hangExample}

HangIndents == {0, 4}

defaultPageWidth == AvailablePerLine(80, <<1, 1>>)

HangPageWidths == {defaultPageWidth, AvailablePerLine(MaxWidth, <<1, 1>>)}

InitHang ==
  /\ theDoc \in HangSeeds
  /\ steps = 0
  /\ wellFormed = TRUE
  /\ lastOp = "init"
  /\ NotLaidOut
  /\ rwArgs = NoValue
  /\ rwResult = NoValue
  /\ operand = NoValue
  /\ theStream = NoValue
  /\ built = NoValue

BuildHang(op, d) ==
  /\ algorithm = "none"
  /\ steps < MaxHangSteps
  /\ theDoc' = d
  /\ steps' = steps + 1
  /\ lastOp' = op
  /\ operand' = theDoc
  /\ UNCHANGED <<wellFormed, options, algorithm, laidOut, rendered, rwArgs, rwResult,
                 theStream, built>>

HangPrependLine == BuildHang("appendWithLine", appendWithLine(ipsum, theDoc))

HangPrependText == BuildHang("Cat", Cat(sit, theDoc))

HangPrependBreak == BuildHang("Cat", Cat(hardLine, theDoc))

HangAppendBreak == BuildHang("Cat", Cat(theDoc, hardLine))

HangNest == BuildHang("nest", nest(2, theDoc))

HangHang == \E n \in HangIndents : BuildHang("hang", hang(n, theDoc))

HangAlign == BuildHang("align", align(theDoc))

HangPretty == \E pw \in HangPageWidths : Laid("layoutPretty", pw, layoutPretty(theDoc, pw))

HangSmart == \E pw \in HangPageWidths : Laid("layoutSmart", pw, layoutSmart(theDoc, pw))

NextHang ==
  \/ HangPrependLine
  \/ HangPrependText
  \/ HangPrependBreak
  \/ HangAppendBreak
  \/ HangNest
  \/ HangHang
  \/ HangAlign
  \/ HangPretty
  \/ HangSmart

SpecHang == InitHang /\ [][NextHang]_vars

(***************************************************************************)
(* Specification SpecCombinators: a string without newlines is typed, one  *)
(* combinator of the list of general combinators is applied to it, and     *)
(* the document is laid out by layoutPretty.                                *)
(***************************************************************************)
StringChars == {"a", " "}

FillWidths == {1, 3}

InitCombinators ==
  /\ theDoc = Empty
  /\ steps = 0
  /\ wellFormed = TRUE
  /\ lastOp = "type"
  /\ NotLaidOut
  /\ rwArgs = NoValue
  /\ rwResult = NoValue
  /\ operand = <<>>
  /\ theStream = NoValue
  /\ built = NoValue

TypeChar ==
  \E c \in StringChars :
    /\ lastOp = "type"
    /\ Len(operand) < MaxStringLen
    /\ operand' = Append(operand, c)
    /\ UNCHANGED <<theDoc, steps, wellFormed, lastOp, options, algorithm, laidOut,
                   rendered, rwArgs, rwResult, theStream, built>>

Combine(op, d) ==
  /\ lastOp = "type"
  /\ theDoc' = d
  /\ steps' = steps + 1
  /\ lastOp' = op
  /\ UNCHANGED <<wellFormed, options, algorithm, laidOut, rendered, rwArgs, rwResult,
                 operand, theStream, built>>

CombineList == Combine("list", list(words(operand)))

CombineTupled == Combine("tupled", tupled(words(operand)))

CombineEncloseSep == Combine("encloseSep", encloseSep(lparen, rparen, comma, words(operand)))

CombineSpaces == \E n \in 0..MaxStringLen : Combine("spaces", spaces(n))

CombineIndent == \E n \in 0..MaxStringLen : Combine("indent", indent(n, hsep(words(operand))))

CombineReflow == Combine("reflow", reflow(operand))

CombineFill == \E lw \in FillWidths : Combine("fill", fill(lw, hsep(words(operand))))

CombineFillBreak ==
  \E lw \in FillWidths : Combine("fillBreak", fillBreak(lw, hsep(words(operand))))

CombinePunctuate == Combine("punctuate", hsep(punctuate(comma, words(operand))))

CombinatorsPretty ==
  \E pw \in HangPageWidths :
    lastOp # "type" /\ Laid("layoutPretty", pw, layoutPretty(theDoc, pw))

NextCombinators ==
  \/ TypeChar
  \/ CombineList
  \/ CombineTupled
  \/ CombineEncloseSep
  \/ CombineSpaces
  \/ CombineIndent
  \/ CombineReflow
  \/ CombineFill
  \/ CombineFillBreak
  \/ CombinePunctuate
  \/ CombinatorsPretty

SpecCombinators == InitCombinators /\ [][NextCombinators]_vars

(***************************************************************************)
(* Specification SpecStream: a stream is built by the constructors of      *)
(* SimpleDocStream, from its end to its first node, and given to renderS.  *)
(***************************************************************************)
StreamEnds == {SEmpty, SFail}

StreamChars == {<<"a">>, <<" ">>}

StreamTexts == {<<"a", " ">>, <<" ", " ">>}

StreamIndentations == {0, 2}

InitStream ==
  /\ theStream \in StreamEnds
  /\ built = NoValue
  /\ theDoc = NoValue
  /\ steps = 0
  /\ wellFormed = TRUE
  /\ lastOp = "init"
  /\ NotLaidOut
  /\ rwArgs = NoValue
  /\ rwResult = NoValue
  /\ operand = NoValue

Prepend(op, stream) ==
  /\ algorithm = "none"
  /\ steps < MaxStreamLen
  /\ theStream' = stream
  /\ steps' = steps + 1
  /\ lastOp' = op
  /\ UNCHANGED <<theDoc, wellFormed, options, algorithm, laidOut, rendered, rwArgs,
                 rwResult, operand, built>>

PrependSChar == \E c \in StreamChars : Prepend("SChar", SChar(c, theStream))

PrependSText == \E t \in StreamTexts : Prepend("SText", SText(t, theStream))

PrependSLine == \E i \in StreamIndentations : Prepend("SLine", SLine(i, theStream))

PrependSAnnPush == Prepend("SAnnPush", SAnnPush("ann", theStream))

PrependSAnnPop == Prepend("SAnnPop", SAnnPop(theStream))

\* renderS(stream)
RenderStream ==
  /\ algorithm = "none"
  /\ algorithm' = "renderS"
  /\ laidOut' = theStream
  /\ rendered' = renderS(theStream)
  /\ lastOp' = "render"
  /\ UNCHANGED <<theDoc, steps, wellFormed, options, rwArgs, rwResult, operand, theStream, built>>

\* renderS(removeTrailingWhitespace(stream))
StripStream ==
  LET stripped == removeTrailingWhitespace(theStream)
  IN  /\ algorithm = "none"
      /\ algorithm' = "removeTrailingWhitespace"
      /\ laidOut' = IF stripped.threw THEN NoValue ELSE stripped.value
      /\ rendered' = IF stripped.threw THEN Thrown ELSE renderS(stripped.value)
      /\ lastOp' = "render"
      /\ UNCHANGED <<theDoc, steps, wellFormed, options, rwArgs, rwResult, operand,
                     theStream, built>>

\* map(f)(stream)
MapStream ==
  \E f \in {identity, toOther} :
    /\ algorithm = "none"
    /\ algorithm' = "map"
    /\ operand' = f
    /\ laidOut' = map(f, theStream)
    /\ rendered' = renderS(map(f, theStream))
    /\ lastOp' = "render"
    /\ UNCHANGED <<theDoc, steps, wellFormed, options, rwArgs, rwResult, theStream,
                   built>>

NextStream ==
  \/ PrependSChar
  \/ PrependSText
  \/ PrependSLine
  \/ PrependSAnnPush
  \/ PrependSAnnPop
  \/ RenderStream
  \/ StripStream
  \/ MapStream

SpecStream == InitStream /\ [][NextStream]_vars

(***************************************************************************)
(* Specification SpecReflow: words are joined by fillSep, as reflow does,  *)
(* and the document is laid out by layoutPretty; the layout is measured by *)
(* the number of times best reaches the end of the document.               *)
(***************************************************************************)
ReflowWords == {Text(<<"a", "b">>), Text(<<"c", "d", "e">>)}

ReflowPageWidths == PageWidths \cup {defaultPageWidth}

InitReflow ==
  /\ theDoc = fillSep(<<>>)
  /\ steps = 0
  /\ wellFormed = TRUE
  /\ lastOp = "fillSep"
  /\ NotLaidOut
  /\ rwArgs = NoValue
  /\ rwResult = NoValue
  /\ operand = <<>>
  /\ theStream = NoValue
  /\ built = NoValue

AddWord ==
  \E word \in ReflowWords :
    /\ algorithm = "none"
    /\ Len(operand) < MaxWords
    /\ operand' = Append(operand, word)
    /\ theDoc' = fillSep(Append(operand, word))
    /\ steps' = steps + 1
    /\ lastOp' = "fillSep"
    /\ UNCHANGED <<wellFormed, options, algorithm, laidOut, rendered, rwArgs, rwResult,
                   theStream, built>>

ReflowPretty ==
  \E pw \in ReflowPageWidths :
    /\ algorithm = "none"
    /\ algorithm' = "layoutPretty"
    /\ options' = pw
    /\ laidOut' = layoutPretty(theDoc, pw)
    /\ rendered' = renderS(layoutPretty(theDoc, pw))
    /\ built' = bestReachesNil(pw, 0, Cons(0, theDoc, Nil))
    /\ lastOp' = "render"
    /\ UNCHANGED <<theDoc, steps, wellFormed, rwArgs, rwResult, operand, theStream>>

NextReflow == AddWord \/ ReflowPretty

SpecReflow == InitReflow /\ [][NextReflow]_vars

(***************************************************************************)
(* Specification SpecOptimize: a document of strings, line breaks, nest,   *)
(* group, align and annotations, or one built by list, is optimized at one *)
(* of the two fusion depths, laid out and rendered.                        *)
(***************************************************************************)
\* list([text('10'), text('20')])
listExample == list(<<Text(<<"1", "0">>), Text(<<"2", "0">>)>>)

OptimizeSeeds == {Char(<<"a">>), Text(<<"b", "c">>), Empty, hardLine, listExample}

OptimizeLeaves == {Char(<<"a">>), Text(<<"b", "c">>), Empty, line}

OptimizeIndents == {0, 2}

OptimizePageWidths ==
  {Unbounded, AvailablePerLine(2, <<1, 1>>), AvailablePerLine(7, <<1, 1>>)}

FusionDepths == {Shallow, Deep}

InitOptimize ==
  /\ theDoc \in OptimizeSeeds
  /\ steps = 0
  /\ wellFormed = TRUE
  /\ lastOp = "init"
  /\ NotLaidOut
  /\ rwArgs = NoValue
  /\ rwResult = NoValue
  /\ operand = NoValue
  /\ theStream = NoValue
  /\ built = NoValue

BuildOptimize(op, d) ==
  /\ algorithm = "none"
  /\ steps < MaxOptimizeSteps
  /\ theDoc' = d
  /\ steps' = steps + 1
  /\ lastOp' = op
  /\ operand' = theDoc
  /\ UNCHANGED <<wellFormed, options, algorithm, laidOut, rendered, rwArgs, rwResult,
                 theStream, built>>

OptimizeAddRight == \E leaf \in OptimizeLeaves : BuildOptimize("Cat", Cat(theDoc, leaf))

OptimizeAddLeft == \E leaf \in LeftLeaves : BuildOptimize("Cat", Cat(leaf, theDoc))

OptimizeNest == \E j \in OptimizeIndents : BuildOptimize("Nest", Nest(j, theDoc))

OptimizeGroup == BuildOptimize("group", group(theDoc))

OptimizeAlign == BuildOptimize("align", align(theDoc))

OptimizeAnnotated == BuildOptimize("Annotated", Annotated("ann", theDoc))

\* renderS(layout(optimize(doc)(depth)))
Optimized(alg, depth, pw, stream) ==
  /\ algorithm = "none"
  /\ algorithm' = alg
  /\ options' = pw
  /\ operand' = depth
  /\ laidOut' = stream
  /\ rendered' = renderS(stream)
  /\ lastOp' = "renderOptimized"
  /\ UNCHANGED <<theDoc, steps, wellFormed, rwArgs, rwResult, theStream, built>>

OptimizedPretty ==
  \E depth \in FusionDepths, pw \in OptimizePageWidths :
    Optimized("layoutPretty", depth, pw, layoutPretty(optimize(theDoc, depth), pw))

OptimizedSmart ==
  \E depth \in FusionDepths, pw \in OptimizePageWidths :
    Optimized("layoutSmart", depth, pw, layoutSmart(optimize(theDoc, depth), pw))

OptimizedCompact ==
  \E depth \in FusionDepths :
    Optimized("layoutCompact", depth, Unbounded, layoutCompact(optimize(theDoc, depth)))

NextOptimize ==
  \/ OptimizeAddRight
  \/ OptimizeAddLeft
  \/ OptimizeNest
  \/ OptimizeGroup
  \/ OptimizeAlign
  \/ OptimizeAnnotated
  \/ OptimizedPretty
  \/ OptimizedSmart
  \/ OptimizedCompact

SpecOptimize == InitOptimize /\ [][NextOptimize]_vars

(***************************************************************************)
(* Specification SpecMatch: a destructor is applied to a value of its sum, *)
(* of another sum, or of no sum.                                           *)
(***************************************************************************)
Sums ==
  [PageWidth |-> PageWidthCases, Doc |-> DocCases,
   SimpleDocStream |-> SimpleDocStreamCases, LayoutPipeline |-> LayoutPipelineCases,
   FlattenResult |-> FlattenResultCases]

MatchedValues ==
  {AvailablePerLine(80, <<1, 1>>), Unbounded,
   Fail, Empty, Char(<<"a">>), Text(<<"f", "o", "o">>), Line,
   FlatAlt(Char(<<"a">>), Char(<<"b">>)), Cat(Char(<<"a">>), Char(<<"b">>)),
   Nest(1, Char(<<"a">>)), Union(Char(<<"a">>), Char(<<"b">>)),
   Column(constReact(Char(<<"a">>))), WithPageWidth(constReact(Char(<<"a">>))),
   Nesting(constReact(Char(<<"a">>))), Annotated(1, Char(<<"a">>)),
   SFail, SEmpty, SChar(<<"a">>, SEmpty), SText(<<"f", "o", "o">>, SEmpty),
   SLine(2, SEmpty), SAnnPush(1, SEmpty), SAnnPop(SEmpty),
   Nil, Cons(0, Empty, Nil), UndoAnn(Nil),
   Flattened(Empty), AlreadyFlat, NeverFlat,
   [tag |-> "Other"], <<>>}

InitMatch ==
  /\ theDoc = NoValue
  /\ steps = 0
  /\ wellFormed = TRUE
  /\ lastOp = "init"
  /\ NotLaidOut
  /\ rwArgs = NoValue
  /\ rwResult = NoValue
  /\ operand = NoValue
  /\ theStream = NoValue
  /\ built = NoValue

CallMatch ==
  \E sum \in DOMAIN Sums, x \in MatchedValues :
    /\ algorithm' = "match"
    /\ lastOp' = sum
    /\ operand' = x
    /\ rendered' = match(Sums[sum], x)
    /\ UNCHANGED <<theDoc, steps, wellFormed, options, laidOut, rwArgs, rwResult,
                   theStream, built>>

NextMatch == CallMatch

SpecMatch == InitMatch /\ [][NextMatch]_vars

(***************************************************************************)
(* The fitting predicates and initialIndentation, applied to streams       *)
(***************************************************************************)
MaxFitStreamLen == 3

MaxFitWidth == 3

FitIndentations == {0, 2}

FitRibbons == {<<1, 1>>, <<1, 2>>}

FitLineIndents == {0, 1}

FitColumns == {0, 1, 2}

FitInitialIndents == {none, some(0), some(2)}

InitFits ==
  /\ theStream \in {SEmpty, SFail}
  /\ built = NoValue
  /\ theDoc = NoValue
  /\ steps = 0
  /\ wellFormed = TRUE
  /\ lastOp = "init"
  /\ NotLaidOut
  /\ rwArgs = NoValue
  /\ rwResult = NoValue
  /\ operand = NoValue

PrependFit(op, stream) ==
  /\ algorithm = "none"
  /\ steps < MaxFitStreamLen
  /\ theStream' = stream
  /\ steps' = steps + 1
  /\ lastOp' = op
  /\ UNCHANGED <<theDoc, wellFormed, options, algorithm, laidOut, rendered, rwArgs,
                 rwResult, operand, built>>

FitSChar == PrependFit("SChar", SChar(<<"a">>, theStream))

FitSText == PrependFit("SText", SText(<<"a", "b">>, theStream))

FitSLine == \E i \in FitIndentations : PrependFit("SLine", SLine(i, theStream))

FitSAnnPush == PrependFit("SAnnPush", SAnnPush("ann", theStream))

FitSAnnPop == PrependFit("SAnnPop", SAnnPop(theStream))

\* fits(lineIndent, currentColumn, initialIndentY, stream) of layoutPretty and layoutSmart
CallFits ==
  \E lineWidth \in 1..MaxFitWidth, ribbonFraction \in FitRibbons,
     lineIndent \in FitLineIndents, currentColumn \in FitColumns,
     initialIndentY \in FitInitialIndents :
    \E fits \in {fitsOfPretty(lineWidth, ribbonFraction),
                 fitsOfSmart(lineWidth, ribbonFraction)} :
      /\ algorithm = "none"
      /\ algorithm' = "fits"
      /\ operand' = [fits |-> fits, lineWidth |-> lineWidth,
                     ribbonFraction |-> ribbonFraction, lineIndent |-> lineIndent,
                     currentColumn |-> currentColumn, initialIndentY |-> initialIndentY]
      /\ rendered' = callFits(fits, lineIndent, currentColumn, initialIndentY, theStream)
      /\ lastOp' = "fits"
      /\ UNCHANGED <<theDoc, steps, wellFormed, options, laidOut, rwArgs, rwResult,
                     theStream, built>>

\* initialIndentation(stream)
CallInitialIndentation ==
  /\ algorithm = "none"
  /\ algorithm' = "initialIndentation"
  /\ rendered' = initialIndentation(theStream)
  /\ lastOp' = "initialIndentation"
  /\ UNCHANGED <<theDoc, steps, wellFormed, options, laidOut, rwArgs, rwResult,
                 operand, theStream, built>>

NextFits ==
  \/ FitSChar
  \/ FitSText
  \/ FitSLine
  \/ FitSAnnPush
  \/ FitSAnnPop
  \/ CallFits
  \/ CallInitialIndentation

SpecFits == InitFits /\ [][NextFits]_vars

(***************************************************************************)
(* Reactive documents under changesUponFlattening, group and layoutPretty  *)
(***************************************************************************)
MaxReactiveSteps == 3

ReactiveSeeds ==
  {Column(textReact(<<"c">>)), Nesting(textReact(<<"n">>)),
   WithPageWidth(constReact(Char(<<"w">>)))}

ReactiveIndents == {1, 2}

ReactivePageWidths == {AvailablePerLine(w, <<1, 1>>) : w \in {2, 6}}

InitReactive ==
  /\ theDoc \in ReactiveSeeds
  /\ steps = 0
  /\ wellFormed = TRUE
  /\ lastOp = "init"
  /\ NotLaidOut
  /\ rwArgs = NoValue
  /\ rwResult = NoValue
  /\ operand = NoValue
  /\ theStream = NoValue
  /\ built = NoValue

BuildReactive(op, d) ==
  /\ algorithm = "none"
  /\ steps < MaxReactiveSteps
  /\ theDoc' = d
  /\ steps' = steps + 1
  /\ lastOp' = op
  /\ operand' = theDoc
  /\ built' = NoValue
  /\ UNCHANGED <<wellFormed, options, algorithm, laidOut, rendered, rwArgs, rwResult,
                 theStream>>

ReactiveAddLeft == BuildReactive("Cat", Cat(Char(<<"a">>), theDoc))

ReactiveNest == \E j \in ReactiveIndents : BuildReactive("Nest", Nest(j, theDoc))

ReactiveGroup == BuildReactive("group", group(theDoc))

\* changesUponFlattening(doc)
ReactiveChanges ==
  /\ algorithm = "none"
  /\ lastOp # "changesUponFlattening"
  /\ lastOp' = "changesUponFlattening"
  /\ operand' = theDoc
  /\ built' = changesUponFlattening(theDoc)
  /\ UNCHANGED <<theDoc, steps, wellFormed, options, algorithm, laidOut, rendered,
                 rwArgs, rwResult, theStream>>

\* renderS(layoutPretty(pageWidth)(doc))
ReactiveLayout ==
  \E pw \in ReactivePageWidths :
    /\ algorithm = "none"
    /\ lastOp # "changesUponFlattening"
    /\ algorithm' = "layoutPretty"
    /\ options' = pw
    /\ laidOut' = layoutPretty(theDoc, pw)
    /\ rendered' = renderS(layoutPretty(theDoc, pw))
    /\ UNCHANGED <<theDoc, steps, wellFormed, lastOp, rwArgs, rwResult, operand,
                   theStream, built>>

NextReactive ==
  \/ ReactiveAddLeft
  \/ ReactiveNest
  \/ ReactiveGroup
  \/ ReactiveChanges
  \/ ReactiveLayout

SpecReactive == InitReactive /\ [][NextReactive]_vars

(***************************************************************************)
(* alterAnnotationS applied to streams with two annotations                *)
(***************************************************************************)
MaxAlterLen == 4

AlterAnnotations == {"keep", "drop"}

InitAlter ==
  /\ theStream \in {SEmpty, SFail}
  /\ built = NoValue
  /\ theDoc = NoValue
  /\ steps = 0
  /\ wellFormed = TRUE
  /\ lastOp = "init"
  /\ NotLaidOut
  /\ rwArgs = NoValue
  /\ rwResult = NoValue
  /\ operand = NoValue

PrependAlter(op, stream) ==
  /\ algorithm = "none"
  /\ steps < MaxAlterLen
  /\ theStream' = stream
  /\ steps' = steps + 1
  /\ lastOp' = op
  /\ UNCHANGED <<theDoc, wellFormed, options, algorithm, laidOut, rendered, rwArgs,
                 rwResult, operand, built>>

AlterSChar == PrependAlter("SChar", SChar(<<"a">>, theStream))

AlterSText == PrependAlter("SText", SText(<<"b", "c">>, theStream))

AlterSLine == PrependAlter("SLine", SLine(1, theStream))

AlterSAnnPush == \E a \in AlterAnnotations : PrependAlter("SAnnPush", SAnnPush(a, theStream))

AlterSAnnPop == PrependAlter("SAnnPop", SAnnPop(theStream))

\* alterAnnotationS(f)(stream)
AlterStream ==
  \E f \in {keepAll, dropAll, keepOnly} :
    /\ algorithm = "none"
    /\ algorithm' = "alterAnnotationS"
    /\ operand' = f
    /\ built' = alterAnnotationS(f, theStream)
    /\ lastOp' = "alter"
    /\ UNCHANGED <<theDoc, steps, wellFormed, options, laidOut, rendered, rwArgs,
                   rwResult, theStream>>

NextAlter ==
  \/ AlterSChar
  \/ AlterSText
  \/ AlterSLine
  \/ AlterSAnnPush
  \/ AlterSAnnPop
  \/ AlterStream

SpecAlter == InitAlter /\ [][NextAlter]_vars

(***************************************************************************)
(* Measures of a stream, for the properties below                          *)
(***************************************************************************)
\* the nodes of a stream along its successor chain, first node first
RECURSIVE Nodes(_)
Nodes(stream) ==
  IF stream.tag \in {"SFail", "SEmpty"} THEN <<stream>>
  ELSE <<stream>> \o Nodes(stream.stream)

EndsInSEmpty(stream) == Nodes(stream)[Len(Nodes(stream))].tag = "SEmpty"

HasNode(stream, tags) == \E i \in DOMAIN Nodes(stream) : Nodes(stream)[i].tag \in tags

\* the number of nodes with the given tag among the first n nodes
CountTag(stream, tag, n) ==
  Cardinality({i \in 1..n : Nodes(stream)[i].tag = tag})

PopsNeverExceedPushes(stream) ==
  \A n \in 0..Len(Nodes(stream)) :
    CountTag(stream, "SAnnPop", n) <= CountTag(stream, "SAnnPush", n)

AllPushesClosed(stream) ==
  CountTag(stream, "SAnnPop", Len(Nodes(stream)))
    = CountTag(stream, "SAnnPush", Len(Nodes(stream)))

IsRendered(alg) == lastOp = "render" /\ algorithm = alg

(***************************************************************************)
(* Measures of a document, for the properties below                        *)
(***************************************************************************)
\* the tags of the nodes of a document, the functions of reactive nodes aside
RECURSIVE DocTags(_)
DocTags(doc) ==
  {doc.tag} \cup
    CASE doc.tag \in {"FlatAlt", "Cat", "Union"} -> DocTags(doc.x) \cup DocTags(doc.y)
      [] doc.tag \in {"Nest", "Annotated"} -> DocTags(doc.doc)
      [] OTHER -> {}

Reactive == {"Column", "WithPageWidth", "Nesting"}

\* the printable content of a document of Char, Text, Line, Cat and Nest, read
\* left to right: its payloads, and a line break for each Line
RECURSIVE DocContent(_)
DocContent(doc) ==
  CASE doc.tag = "Char" -> <<doc.char>>
    [] doc.tag = "Text" -> <<doc.text>>
    [] doc.tag = "Line" -> <<"break">>
    [] doc.tag = "Cat" -> DocContent(doc.x) \o DocContent(doc.y)
    [] doc.tag = "Nest" -> DocContent(doc.doc)

\* the same reading of a stream; a node that is no payload, line break or
\* SEmpty is kept as its tag
RECURSIVE StreamContent(_)
StreamContent(stream) ==
  CASE stream.tag = "SEmpty" -> <<>>
    [] stream.tag = "SFail" -> <<"SFail">>
    [] stream.tag = "SChar" -> <<stream.char>> \o StreamContent(stream.stream)
    [] stream.tag = "SText" -> <<stream.text>> \o StreamContent(stream.stream)
    [] stream.tag = "SLine" -> <<"break">> \o StreamContent(stream.stream)
    [] OTHER -> <<stream.tag>> \o StreamContent(stream.stream)

\* the characters of a content, a line break as "\n"
RECURSIVE ContentChars(_)
ContentChars(content) ==
  IF content = <<>> THEN <<>>
  ELSE (IF Head(content) = "break" THEN <<"\n">> ELSE Head(content))
         \o ContentChars(Tail(content))

\* the indentations of the SLine nodes of a stream, in order
RECURSIVE Indentations(_)
Indentations(stream) ==
  CASE stream.tag \in {"SFail", "SEmpty"} -> <<>>
    [] stream.tag = "SLine" -> <<stream.indentation>> \o Indentations(stream.stream)
    [] OTHER -> Indentations(stream.stream)

\* a rendering without the indentation that follows each of its line breaks
RECURSIVE Unindent(_, _)
Unindent(chars, indents) ==
  IF chars = <<>> THEN <<>>
  ELSE IF Head(chars) = "\n" /\ indents # <<>>
       THEN LET n == IF Head(indents) < 0 THEN 0 ELSE Head(indents)
            IN  <<"\n">> \o Unindent(SubSeq(chars, n + 2, Len(chars)), Tail(indents))
       ELSE <<Head(chars)>> \o Unindent(Tail(chars), indents)

\* the lines of a rendering
RECURSIVE LinesOf(_)
LinesOf(chars) ==
  IF \A k \in DOMAIN chars : chars[k] # "\n" THEN <<chars>>
  ELSE LET k == CHOOSE j \in DOMAIN chars :
                  chars[j] = "\n" /\ \A m \in 1..(j - 1) : chars[m] # "\n"
       IN  <<SubSeq(chars, 1, k - 1)>> \o LinesOf(SubSeq(chars, k + 1, Len(chars)))

\* the number of places of a line of a rendering where "fun(" starts
CountFun(chars) ==
  Cardinality({k \in 1..(Len(chars) - 3) : SubSeq(chars, k, k + 3) = <<"f", "u", "n", "(">>})

FunLines == LinesOf(rendered.value)

FunRendered(alg) ==
  /\ IsRendered(alg)
  /\ steps = FunDepth
  /\ options = AvailablePerLine(FunWidth, <<1, 1>>)

\* the stream after the first n nodes of a stream
RECURSIVE DropNodes(_, _)
DropNodes(stream, n) == IF n = 0 THEN stream ELSE DropNodes(stream.stream, n - 1)

\* the column where the first line of a stream ends when it starts at column
\* cc, and whether an SFail comes before the end of that line
RECURSIVE FirstLine(_, _)
FirstLine(cc, stream) ==
  CASE stream.tag \in {"SEmpty", "SLine"} -> [end |-> cc, fails |-> FALSE]
    [] stream.tag = "SFail" -> [end |-> cc, fails |-> TRUE]
    [] stream.tag = "SChar" -> FirstLine(cc + 1, stream.stream)
    [] stream.tag = "SText" -> FirstLine(cc + Len(stream.text), stream.stream)
    [] OTHER -> FirstLine(cc, stream.stream)

\* Where best meets the first Union of a pipeline: the indentation nl of the
\* current line, the current column cc, the number n of nodes emitted before
\* it, and the pipeline whose head is the Union.
RECURSIVE FirstUnion(_, _, _, _, _)
FirstUnion(pageWidth, nl, cc, n, pipeline) ==
  LET p == bestTailCalls(pageWidth, cc, pipeline)
  IN  CASE p.tag = "Nil" -> [found |-> FALSE]
        [] p.tag = "UndoAnn" -> FirstUnion(pageWidth, nl, cc, n + 1, p.pipeline)
        [] p.document.tag = "Fail" -> [found |-> FALSE]
        [] p.document.tag = "Char" ->
             FirstUnion(pageWidth, nl, cc + 1, n + 1, p.pipeline)
        [] p.document.tag = "Text" ->
             FirstUnion(pageWidth, nl, cc + Len(p.document.text), n + 1, p.pipeline)
        [] p.document.tag = "Line" ->
             FirstUnion(pageWidth, p.indentation, p.indentation, n + 1, p.pipeline)
        [] p.document.tag = "Annotated" ->
             FirstUnion(pageWidth, nl, cc, n + 1,
                        Cons(p.indentation, p.document.doc, UndoAnn(p.pipeline)))
        [] p.document.tag = "Union" ->
             [found |-> TRUE, nl |-> nl, cc |-> cc, n |-> n, pipeline |-> p]

PrettySite == FirstUnion(options, 0, 0, 0, Cons(0, theDoc, Nil))

\* the layout of the rest of the document from the first Union on, with the
\* given alternative of the Union
PrettyAlternative(alt) ==
  best(fitsOfPretty(options.lineWidth, options.ribbonFraction), options,
       PrettySite.nl, PrettySite.cc,
       Cons(PrettySite.pipeline.indentation, alt, PrettySite.pipeline.pipeline))

PrettyFlat == PrettyAlternative(PrettySite.pipeline.document.x)

PrettyBroken == PrettyAlternative(PrettySite.pipeline.document.y)

\* layoutPretty with AvailablePerLine(w, 1) has laid out a document whose
\* Unions come from group, softLine and softLineBreak, and has met a Union
AtPrettyUnion ==
  /\ IsRendered("layoutPretty")
  /\ wellFormed
  /\ options.tag = "AvailablePerLine"
  /\ options.ribbonFraction = <<1, 1>>
  /\ PrettySite.found

\* the strings of an array of Text documents, each preceded by the string
\* first, when it is the first one, or by the string later
RECURSIVE Joined(_, _, _)
Joined(docs, first, later) ==
  IF docs = <<>> THEN <<>>
  ELSE first \o Head(docs).text \o Joined(Tail(docs), later, later)

\* "[d1, d2, ..., dn]"
ListOnOneLine(docs) == <<"[">> \o Joined(docs, <<>>, <<",", " ">>) \o <<"]">>

\* "[ d1", ", d2", ..., ", dn ]" on a line each
ListOnePerLine(docs) ==
  <<"[", " ">> \o Joined(docs, <<>>, <<"\n", ",", " ">>) \o <<" ", "]">>

(***************************************************************************)
(* Properties                                                              *)
(***************************************************************************)
\* C1: for a document without Fail whose Unions all come from group, softLine
\* or softLineBreak, and for every page width, the stream of layoutPretty ends
\* in SEmpty and holds no SFail, and renderS of it returns a string.
C1_PrettyNeverFails ==
  (IsRendered("layoutPretty") /\ wellFormed) =>
    /\ EndsInSEmpty(laidOut)
    /\ ~HasNode(laidOut, {"SFail"})
    /\ ~rendered.threw

\* a group whose flattened alternative lays out to SFail was laid out by
\* layoutPretty
C1_Witness ==
  /\ IsRendered("layoutPretty")
  /\ wellFormed
  /\ theDoc = group(align(hardLine))
  /\ theDoc.tag = "Union"
  /\ HasNode(layoutPretty(theDoc.x, options), {"SFail"})
  /\ laidOut = SLine(0, SEmpty)
  /\ rendered = Returned(<<"\n">>)

\* C2: in the stream of each of the four layouts no prefix holds more SAnnPop
\* than SAnnPush, and when the stream ends in SEmpty every SAnnPush of it has
\* been closed by one SAnnPop.
C2_AnnotationsBalanced ==
  lastOp = "render" =>
    /\ PopsNeverExceedPushes(laidOut)
    /\ EndsInSEmpty(laidOut) => AllPushesClosed(laidOut)

\* an annotated document was laid out up to SEmpty
C2_Witness ==
  /\ IsRendered("layoutSmart")
  /\ theDoc.tag = "Cat"
  /\ theDoc.x.tag = "Annotated"
  /\ HasNode(laidOut, {"SAnnPush"})
  /\ HasNode(laidOut, {"SAnnPop"})
  /\ EndsInSEmpty(laidOut)

\* C2 as stated: every SAnnPush is closed at the end of every stream, the
\* streams that end in SFail included.
C2_AsStated ==
  lastOp = "render" =>
    /\ PopsNeverExceedPushes(laidOut)
    /\ AllPushesClosed(laidOut)

\* C3: every SLine of the stream of layoutCompact has indentation 0 and the
\* stream holds no SAnnPush and no SAnnPop.
C3_CompactDropsNestingAndAnnotations ==
  IsRendered("layoutCompact") =>
    /\ \A i \in DOMAIN Nodes(laidOut) :
         Nodes(laidOut)[i].tag = "SLine" => Nodes(laidOut)[i].indentation = 0
    /\ ~HasNode(laidOut, {"SAnnPush", "SAnnPop"})

\* a nested line break followed by text was laid out by layoutCompact
C3_Witness ==
  /\ IsRendered("layoutCompact")
  /\ theDoc = Nest(2, Cat(Line, Char(<<"a">>)))
  /\ laidOut = SLine(0, SChar(<<"a">>, SEmpty))

\* C4: when changesUponFlattening(doc) is AlreadyFlat, layoutUnbounded(doc) and
\* layoutUnbounded(flatten(doc)) are the same stream.
C4_AlreadyFlatLayoutUnchanged ==
  (IsRendered("layoutUnbounded") /\ changesUponFlattening(theDoc) = AlreadyFlat) =>
    laidOut = layoutUnbounded(flatten(theDoc))

\* an annotated concatenation that is already flat was laid out by layoutUnbounded
C4_Witness ==
  /\ IsRendered("layoutUnbounded")
  /\ theDoc = Annotated("ann", Cat(Char(<<"a">>), Text(<<"b", "c">>)))
  /\ changesUponFlattening(theDoc) = AlreadyFlat
  /\ laidOut = layoutUnbounded(flatten(theDoc))

\* C5: remainingWidth returns min(lineLength - currentColumn, lineIndent +
\* ribbonWidth - currentColumn), ribbonWidth being floor(lineLength *
\* ribbonFraction) clamped into 0..lineLength; for a ribbon fraction in [0, 1]
\* it is at most lineLength - currentColumn and at most lineIndent +
\* floor(lineLength * ribbonFraction) - currentColumn.
C5_RemainingWidth ==
  lastOp = "remainingWidth" =>
    LET l == rwArgs.lineLength
        li == rwArgs.lineIndent
        cc == rwArgs.currentColumn
        num == rwArgs.ribbonFraction[1]
        den == rwArgs.ribbonFraction[2]
        fl == (l * num) \div den
        ribbonWidth == IF fl < 0 THEN 0 ELSE IF fl > l THEN l ELSE fl
        inLine == l - cc
        inRibbon == li + ribbonWidth - cc
    IN  /\ rwResult = IF inLine <= inRibbon THEN inLine ELSE inRibbon
        /\ (0 <= num /\ num <= den) =>
             /\ rwResult <= l - cc
             /\ rwResult <= li + fl - cc

\* a call with a ribbon fraction in [0, 1] returned a negative width
C5_Witness ==
  /\ lastOp = "remainingWidth"
  /\ rwArgs.ribbonFraction = <<1, 2>>
  /\ rwArgs.lineLength = MaxLineLength
  /\ rwResult < 0

\* C6: for a document d without reactive nodes, flatten(flatten(d)) equals
\* flatten(d), and flatten(d) holds no Line, FlatAlt or Union.
C6_FlattenIdempotent ==
  (lastOp = "flatten" /\ DocTags(theDoc) \cap Reactive = {}) =>
    /\ flatten(theDoc) = theDoc
    /\ DocTags(theDoc) \cap {"Line", "FlatAlt", "Union"} = {}

\* flatten was applied to a FlatAlt whose fallback is a line break
C6_Witness ==
  /\ lastOp = "flatten"
  /\ steps = 2
  /\ theDoc = Fail
  /\ flatten(FlatAlt(Char(<<"a">>), hardLine)) = theDoc

\* C7: for a document of Char, Text, Line, Cat and Nest only, the stream of
\* layoutPretty at any page width holds, in order, the payloads of the
\* document and one SLine for each Line, and the rendering without its
\* indentation is that content.
C7_PrettyKeepsContent ==
  (IsRendered("layoutPretty")
     /\ DocTags(theDoc) \subseteq {"Char", "Text", "Line", "Cat", "Nest"}) =>
    /\ StreamContent(laidOut) = DocContent(theDoc)
    /\ ~rendered.threw
    /\ Unindent(rendered.value, Indentations(laidOut)) = ContentChars(DocContent(theDoc))

\* a nested document with a line break between two payloads was laid out by
\* layoutPretty at page width 0
C7_Witness ==
  /\ IsRendered("layoutPretty")
  /\ options = AvailablePerLine(0, <<1, 1>>)
  /\ theDoc = Nest(2, Cat(Line, Char(<<"a">>)))
  /\ laidOut = SLine(2, SChar(<<"a">>, SEmpty))
  /\ rendered = Returned(<<"\n", " ", " ", "a">>)

\* C8: the rendering by layoutSmart at AvailablePerLine(26, 1) of fun applied
\* five times has no line wider than 26 columns, and each of the five "fun("
\* is on a line of its own.
C8_SmartFitsFunExample ==
  FunRendered("layoutSmart") =>
    /\ ~rendered.threw
    /\ \A k \in DOMAIN FunLines :
         /\ Len(FunLines[k]) <= FunWidth
         /\ CountFun(FunLines[k]) <= 1
    /\ Cardinality({k \in DOMAIN FunLines : CountFun(FunLines[k]) = 1}) = FunDepth

\* the example was rendered by layoutSmart: a first line of "fun(" and a last
\* line of 26 columns
C8_Witness ==
  /\ FunRendered("layoutSmart")
  /\ Len(FunLines) = 7
  /\ FunLines[1] = <<"f", "u", "n", "(">>
  /\ Len(FunLines[7]) = FunWidth

\* C9: the rendering by layoutPretty at AvailablePerLine(26, 1) of the same
\* document has all five "fun(" on its first line, which is 20 columns wide,
\* and it is its last line that is wider than 26 columns.
C9_PrettyOverflowsFunExample ==
  FunRendered("layoutPretty") =>
    /\ ~rendered.threw
    /\ CountFun(FunLines[1]) = FunDepth
    /\ Len(FunLines[1]) = 4 * FunDepth
    /\ Len(FunLines[1]) <= FunWidth
    /\ Len(FunLines[Len(FunLines)]) > FunWidth

\* the example was rendered by layoutPretty: three lines, the last of 34 columns
C9_Witness ==
  /\ FunRendered("layoutPretty")
  /\ Len(FunLines) = 3
  /\ CountFun(FunLines[1]) = FunDepth
  /\ Len(FunLines[3]) = 34

\* C9 as stated: the first line of that rendering holds the five "fun(" and is
\* wider than 26 columns.
C9_AsStated ==
  FunRendered("layoutPretty") =>
    /\ CountFun(FunLines[1]) = FunDepth
    /\ Len(FunLines[1]) > FunWidth

\* C10: at a Union that comes from group, softLine or softLineBreak,
\* layoutPretty with AvailablePerLine(w, 1) emits the flat alternative exactly
\* when the layout of that alternative meets no SFail before its first line
\* break and its text up to the first line break or the end of the document
\* ends at a column <= w + min(nl, 0), nl being the indentation of the current
\* line (so at a column <= w unless that indentation is negative); otherwise it
\* emits the other alternative.  Hence group(hcat([text("a"), line,
\* text("b")])) renders "a b" when w >= 3 and "a\nb" when w < 3, and the
\* ungrouped document always renders "a\nb".
C10_PrettyTakesFlatWhenItFits ==
  /\ AtPrettyUnion =>
       LET limit == options.lineWidth + (IF PrettySite.nl < 0 THEN PrettySite.nl ELSE 0)
           flat == FirstLine(PrettySite.cc, PrettyFlat)
       IN  DropNodes(laidOut, PrettySite.n)
             = IF ~flat.fails /\ flat.end <= limit THEN PrettyFlat ELSE PrettyBroken
  /\ (IsRendered("layoutPretty") /\ options.tag = "AvailablePerLine"
        /\ options.ribbonFraction = <<1, 1>>) =>
       /\ theDoc = group(lineExample) =>
            rendered = IF options.lineWidth >= 3 THEN Returned(<<"a", " ", "b">>)
                       ELSE Returned(<<"a", "\n", "b">>)
       /\ theDoc = lineExample => rendered = Returned(<<"a", "\n", "b">>)

\* the grouped example was laid out at page width 3: the Union was met at
\* column 0 and its flat alternative, which ends at column 3, was emitted
C10_Witness ==
  /\ AtPrettyUnion
  /\ options.lineWidth = 3
  /\ theDoc = group(lineExample)
  /\ PrettySite.cc = 0
  /\ FirstLine(PrettySite.cc, PrettyFlat) = [end |-> 3, fails |-> FALSE]
  /\ PrettyFlat # PrettyBroken
  /\ DropNodes(laidOut, PrettySite.n) = PrettyFlat
  /\ rendered = Returned(<<"a", " ", "b">>)

\* C10 as stated: the flat alternative is emitted exactly when its text up to
\* the first line break or the end of the document ends at a column <= w.
C10_AsStated ==
  AtPrettyUnion =>
    DropNodes(laidOut, PrettySite.n)
      = IF FirstLine(PrettySite.cc, PrettyFlat).end <= options.lineWidth
        THEN PrettyFlat ELSE PrettyBroken

\* C11: list(docs), laid out by layoutPretty with AvailablePerLine(w, 1) from
\* column 0, renders as "[d1, d2, ..., dn]" exactly when that line is at most
\* w characters long, and otherwise one element per line with "[ " before the
\* first element, ", " before each later one and " ]" after the last.
C11_ListOnOneLineWhenItFits ==
  IsRendered("layoutPretty") =>
    rendered = IF Len(ListOnOneLine(operand)) <= options.lineWidth
               THEN Returned(ListOnOneLine(operand))
               ELSE Returned(ListOnePerLine(operand))

\* What list does: a separator ", " is a Char of two characters that best
\* counts as one column, so the list stays on one line when the line without
\* one character of each separator is at most w characters long.
C11_ListAsBuilt ==
  IsRendered("layoutPretty") =>
    LET separators == IF operand = <<>> THEN 0 ELSE Len(operand) - 1
    IN  rendered = IF Len(ListOnOneLine(operand)) - separators <= options.lineWidth
                   THEN Returned(ListOnOneLine(operand))
                   ELSE Returned(ListOnePerLine(operand))

\* a list of two elements was rendered on one line of 6 characters at page
\* width 5
C11_Witness ==
  /\ IsRendered("layoutPretty")
  /\ operand = <<Text(<<"1">>), Text(<<"1">>)>>
  /\ options = AvailablePerLine(5, <<1, 1>>)
  /\ rendered = Returned(<<"[", "1", ",", " ", "1", "]">>)

\* The indentation the description of align and hang gives each line break of
\* a document without groups when every line break is followed by its
\* indentation: the nesting level, which nest raises by its indent and align
\* sets to the output column col at which its document starts.
RECURSIVE Described(_, _, _)
Described(doc, level, col) ==
  CASE doc.tag = "Char" -> [indents |-> <<>>, col |-> col + 1]
    [] doc.tag = "Text" -> [indents |-> <<>>, col |-> col + Len(doc.text)]
    [] doc.tag = "Line" -> [indents |-> <<level>>, col |-> level]
    [] doc.tag = "FlatAlt" -> Described(doc.x, level, col)
    [] doc.tag = "Cat" ->
         LET l == Described(doc.x, level, col)
             r == Described(doc.y, level, l.col)
         IN  [indents |-> l.indents \o r.indents, col |-> r.col]
    [] doc.tag = "Nest" -> Described(doc.doc, level + doc.indent, col)
    [] doc.tag = "Column" -> Described(doc.react.doc, col, col)
    [] OTHER -> [indents |-> <<>>, col |-> col]

\* the described indentations, with 0 for each line break that the next line
\* break or the end of the stream follows at once
RECURSIVE BlankLinesAtZero(_, _)
BlankLinesAtZero(indents, stream) ==
  CASE stream.tag \in {"SFail", "SEmpty"} -> <<>>
    [] stream.tag = "SLine" ->
         <<IF stream.stream.tag \in {"SLine", "SEmpty"} THEN 0 ELSE Head(indents)>>
           \o BlankLinesAtZero(Tail(indents), stream.stream)
    [] OTHER -> BlankLinesAtZero(indents, stream.stream)

HangRendered == IsRendered("layoutPretty") \/ IsRendered("layoutSmart")

hangExampleRendered ==
  <<"l", "o", "r", "e", "m", "\n">>
    \o replicateSpace(4) \o <<"i", "p", "s", "u", "m", "\n">>
    \o replicateSpace(4) \o <<"d", "o", "l", "o", "r", "\n">>
    \o replicateSpace(8) \o <<"s", "i", "t">>

C12_ExampleWitness ==
  /\ IsRendered("layoutPretty")
  /\ options = defaultPageWidth
  /\ theDoc = hang(4, hangExample)
  /\ rendered = Returned(hangExampleRendered)

\* group(d) as its description gives it, case by case
GroupDescribed(d) ==
  LET whole == changesUponFlattening(d)
  IN  CASE d.tag = "FlatAlt" ->
             LET b == changesUponFlattening(d.y)
             IN  (CASE b.tag = "Flattened" -> Union(b.value, d.x)
                    [] b.tag = "AlreadyFlat" -> Union(d.y, d.x)
                    [] b.tag = "NeverFlat" -> d.x)
        [] d.tag = "Union" -> d
        [] whole.tag = "Flattened" -> Union(whole.value, d)
        [] whole.tag \in {"AlreadyFlat", "NeverFlat"} -> d

\* C13: group(d) is, for d = FlatAlt(a, b), Union(b', a) when
\* changesUponFlattening(b) = Flattened(b'), Union(b, a) when it is
\* AlreadyFlat, and a when it is NeverFlat; for d = Union(_, _), d itself; for
\* any other d, Union(d', d) when changesUponFlattening(d) = Flattened(d') and
\* d itself when it is AlreadyFlat or NeverFlat.
C13_GroupByCases == lastOp = "group" => theDoc = GroupDescribed(operand)

C13_Witness ==
  /\ lastOp = "group"
  /\ operand = FlatAlt(Char(<<"a">>), softLine)
  /\ theDoc = Union(Char(<<" ">>), Char(<<"a">>))

\* a document without Line, FlatAlt and Union outside its reactive producers
IsFlat(doc) == DocTags(doc) \cap {"Line", "FlatAlt", "Union"} = {}

\* every Union of the document has a flat left branch
RECURSIVE UnionsFlatLeft(_)
UnionsFlatLeft(doc) ==
  CASE doc.tag = "Union" -> IsFlat(doc.x) /\ UnionsFlatLeft(doc.y)
    [] doc.tag \in {"FlatAlt", "Cat"} -> UnionsFlatLeft(doc.x) /\ UnionsFlatLeft(doc.y)
    [] doc.tag \in {"Nest", "Annotated"} -> UnionsFlatLeft(doc.doc)
    [] OTHER -> TRUE

GroupMadeUnion == lastOp = "group" /\ theDoc.tag = "Union" /\ theDoc # operand

\* C14: whenever group(d) returns a new Union(x, y), for a document d whose
\* own Union nodes already have flat left branches, x contains no Line, no
\* FlatAlt and no Union outside reactive producers, and every layout of x is a
\* single line.
C14_GroupLeftBranchFlat ==
  (GroupMadeUnion /\ UnionsFlatLeft(operand)) =>
    /\ IsFlat(theDoc.x)
    /\ \A pw \in PageWidths :
         /\ ~HasNode(layoutPretty(theDoc.x, pw), {"SLine"})
         /\ ~HasNode(layoutSmart(theDoc.x, pw), {"SLine"})

C14_Witness ==
  /\ GroupMadeUnion
  /\ operand = align(line)
  /\ UnionsFlatLeft(operand)
  /\ theDoc.x = Column(flowFlatten(alignReact(line)))

\* the Char and Text nodes of a document, those its reactive nodes produce at
\* the columns 0..MaxColumnTried included
RECURSIVE Payloads(_)
Payloads(doc) ==
  CASE doc.tag = "Char" -> {[tag |-> "Char", chars |-> doc.char]}
    [] doc.tag = "Text" -> {[tag |-> "Text", chars |-> doc.text]}
    [] doc.tag \in {"FlatAlt", "Cat", "Union"} -> Payloads(doc.x) \cup Payloads(doc.y)
    [] doc.tag \in {"Nest", "Annotated"} -> Payloads(doc.doc)
    [] doc.tag \in {"Column", "Nesting"} ->
         UNION {Payloads(Apply(doc.react, c)) : c \in 0..MaxColumnTried}
    [] OTHER -> {}

HasNewline(chars) == \E n \in DOMAIN chars : chars[n] = "\n"

Combined == lastOp \notin {"type", "render"} \/ (lastOp = "render" /\ algorithm # "none")

\* the Char nodes of two characters that list and tupled build
WideChars == {<<"[", " ">>, <<" ", "]">>, <<"(", " ">>, <<" ", ")">>, <<",", " ">>}

\* C15: every document built by the combinator layer (list, tupled,
\* encloseSep, spaces, words, reflow, fill, fillBreak, punctuate, ...) from
\* strings without newlines has Char nodes of exactly one character and Text
\* nodes of at least two characters and no newline.
C15_CombinatorsKeepDocInvariants ==
  Combined =>
    \A p \in Payloads(theDoc) :
      /\ p.tag = "Char" => Len(p.chars) = 1 /\ ~HasNewline(p.chars)
      /\ p.tag = "Text" => Len(p.chars) >= 2 /\ ~HasNewline(p.chars)

\* What the combinators build: no payload holds a newline; a Char holds one
\* character or is one of the two-character brackets and separators of list
\* and tupled; a Text of fewer than two characters is a word of the string
\* that words and reflow got.
C15_AsBuilt ==
  Combined =>
    \A p \in Payloads(theDoc) :
      /\ ~HasNewline(p.chars)
      /\ p.tag = "Char" => Len(p.chars) = 1 \/ p.chars \in WideChars
      /\ (p.tag = "Text" /\ Len(p.chars) < 2) =>
           \E n \in DOMAIN split(operand, " ") : split(operand, " ")[n] = p.chars

C15_Witness ==
  /\ lastOp = "list"
  /\ operand = <<"a", " ", "a">>
  /\ [tag |-> "Char", chars |-> <<",", " ">>] \in Payloads(theDoc)
  /\ [tag |-> "Text", chars |-> <<"a">>] \in Payloads(theDoc)

\* C16: renderS applied to a stream whose successor chain reaches SFail
\* raises an error and returns no string, wherever in the chain the SFail
\* sits; applied to a chain ending in SEmpty it never raises.
C16_RenderSRaisesAtSFail ==
  IsRendered("renderS") =>
    /\ HasNode(theStream, {"SFail"}) => rendered = Thrown
    /\ EndsInSEmpty(theStream) => ~rendered.threw /\ rendered.value \in Seq(STRING)

C16_Witness ==
  /\ IsRendered("renderS")
  /\ theStream = SChar(<<"a">>, SAnnPush("ann", SLine(2, SText(<<"a", " ">>, SFail))))
  /\ rendered = Thrown

RECURSIVE TwoToThe(_)
TwoToThe(n) == IF n <= 0 THEN 1 ELSE 2 * TwoToThe(n - 1)

\* C17: when best expands Union(x, y) and selectNicer keeps the stream of one
\* branch, the stream of the other branch has not been computed to its end;
\* the continuation after the Union is not laid out once per branch, so the
\* end of the document is reached once.
C17_DiscardedBranchNotCompleted == IsRendered("layoutPretty") => built <= 1

\* What best does: both branches of every Union are laid out to their ends
\* before selectNicer chooses, so fillSep of n words, with its n - 1
\* softLines, reaches the end of the document 2^(n-1) times.
C17_BothBranchesCompleted ==
  IsRendered("layoutPretty") => built = TwoToThe(Len(operand) - 1)

C17_Witness ==
  /\ IsRendered("layoutPretty")
  /\ Len(operand) = 3
  /\ options = defaultPageWidth
  /\ CountTag(laidOut, "SLine", Len(Nodes(laidOut))) = 0
  /\ built = 4

UnboundedRendered ==
  (IsRendered("layoutPretty") \/ IsRendered("layoutSmart")) /\ options = Unbounded

\* the layout by layoutUnbounded of the rest of the document from the first
\* Union on, with the given alternative of the Union
UnboundedAlternative(alt) ==
  best(fitsOfUnbounded, Unbounded, PrettySite.nl, PrettySite.cc,
       Cons(PrettySite.pipeline.indentation, alt, PrettySite.pipeline.pipeline))

UnboundedLeft == UnboundedAlternative(PrettySite.pipeline.document.x)

UnboundedRight == UnboundedAlternative(PrettySite.pipeline.document.y)

\* C18: with page width Unbounded, layoutPretty(doc) and layoutSmart(doc)
\* return exactly layoutUnbounded(doc), in which at every Union the left
\* alternative is taken whenever its stream does not reach SFail before its
\* first SLine or its end, however long the text on that line is.
C18_UnboundedTakesLeftUnlessItFails ==
  UnboundedRendered =>
    /\ laidOut = layoutUnbounded(theDoc)
    /\ PrettySite.found =>
         DropNodes(laidOut, PrettySite.n)
           = IF FirstLine(PrettySite.cc, UnboundedLeft).fails
             THEN UnboundedRight ELSE UnboundedLeft

C18_Witness ==
  /\ IsRendered("layoutSmart")
  /\ options = Unbounded
  /\ theDoc = group(Cat(lineExample, Text(<<"b", "c">>)))
  /\ PrettySite.found
  /\ FirstLine(PrettySite.cc, UnboundedLeft).end > MaxWidth
  /\ rendered = Returned(<<"a", " ", "b", "b", "c">>)

C18_FailingLeftWitness ==
  /\ IsRendered("layoutPretty")
  /\ options = Unbounded
  /\ theDoc = group(align(hardLine))
  /\ FirstLine(PrettySite.cc, UnboundedLeft).fails
  /\ laidOut = UnboundedRight

\* the stream of the last layout algorithm for a document
LayoutAgain(doc) ==
  CASE algorithm = "layoutPretty" -> layoutPretty(doc, options)
    [] algorithm = "layoutSmart" -> layoutSmart(doc, options)
    [] algorithm = "layoutCompact" -> layoutCompact(doc)
    [] algorithm = "layoutUnbounded" -> layoutUnbounded(doc)

\* every Char of the document, those of its reactive nodes included, holds
\* one character
CharsAreSingle(doc) == \A p \in Payloads(doc) : p.tag = "Char" => Len(p.chars) = 1

\* C19: optimize never changes what is printed: for every document d, fusion
\* depth, layout algorithm and page width, renderS(layout(optimize(d)(depth)))
\* equals renderS(layout(d)).
C19_OptimizeKeepsRendering ==
  lastOp = "renderOptimized" => rendered = renderS(LayoutAgain(theDoc))

\* What holds: the rendering is kept for every document whose Char nodes hold
\* one character each; list and tupled build Char nodes of two characters.
C19_KeptWhenCharsAreSingle ==
  (lastOp = "renderOptimized" /\ CharsAreSingle(theDoc)) =>
    rendered = renderS(LayoutAgain(theDoc))

C19_Witness ==
  /\ lastOp = "renderOptimized"
  /\ algorithm = "layoutPretty"
  /\ options = AvailablePerLine(7, <<1, 1>>)
  /\ theDoc = listExample
  /\ renderS(LayoutAgain(theDoc))
       = Returned(<<"[", "1", "0", ",", " ", "2", "0", "]">>)
  /\ rendered
       = Returned(<<"[", " ", "1", "0", "\n", ",", " ", "2", "0", " ", "]">>)

C19_FusedWitness ==
  /\ lastOp = "renderOptimized"
  /\ theDoc = group(Cat(Cat(Char(<<"a">>), Char(<<"a">>)), line))
  /\ HasNode(laidOut, {"SText"})
  /\ rendered = renderS(LayoutAgain(theDoc))

\* the lines of a rendering joined by line breaks again
RECURSIVE JoinLines(_)
JoinLines(lines) ==
  IF Len(lines) = 1 THEN lines[1]
  ELSE lines[1] \o <<"\n">> \o JoinLines(Tail(lines))

\* a rendering without the spaces at the end of each of its lines
WithoutTrailingSpaces(chars) ==
  JoinLines([k \in DOMAIN LinesOf(chars) |-> stripEndingSpaces(LinesOf(chars)[k])])

Stripped ==
  /\ IsRendered("removeTrailingWhitespace")
  /\ ~HasNode(theStream, {"SAnnPush", "SAnnPop"})
  /\ EndsInSEmpty(theStream)

\* C20: for every finite stream s without annotations that ends in SEmpty,
\* renderS(removeTrailingWhitespace(s)) equals renderS(s) with the space
\* characters at the end of every line (the last line included) removed: no
\* output line ends with a space, and the number of lines and all other
\* characters are unchanged.
C20_TrailingWhitespaceRemoved ==
  Stripped =>
    /\ rendered = Returned(WithoutTrailingSpaces(renderS(theStream).value))
    /\ Len(LinesOf(rendered.value)) = Len(LinesOf(renderS(theStream).value))
    /\ \A k \in DOMAIN LinesOf(rendered.value) :
         LET l == LinesOf(rendered.value)[k] IN l = <<>> \/ l[Len(l)] # " "

C20_Witness ==
  /\ Stripped
  /\ theStream = SText(<<"a", " ">>, SLine(2, SChar(<<" ">>, SChar(<<"a">>, SEmpty))))
  /\ rendered = Returned(<<"a", "\n", " ", " ", " ", "a">>)

C20_LastLineWitness ==
  /\ Stripped
  /\ theStream = SChar(<<"a">>, SChar(<<" ">>, SLine(2, SLine(2, SEmpty))))
  /\ rendered = Returned(<<"a", "\n", "\n">>)

\* the kinds, characters, texts and indentations of the nodes of a stream, in
\* order, without the annotations of its SAnnPush nodes
Shape(stream) ==
  [k \in DOMAIN Nodes(stream) |->
     LET node == Nodes(stream)[k]
     IN  CASE node.tag = "SChar" -> <<"SChar", node.char>>
           [] node.tag = "SText" -> <<"SText", node.text>>
           [] node.tag = "SLine" -> <<"SLine", node.indentation>>
           [] OTHER -> <<node.tag>>]

\* a stream without its SAnnPop nodes
RECURSIVE WithoutPops(_)
WithoutPops(stream) ==
  CASE stream.tag \in {"SFail", "SEmpty"} -> stream
    [] stream.tag = "SAnnPop" -> WithoutPops(stream.stream)
    [] OTHER -> [stream EXCEPT !.stream = WithoutPops(stream.stream)]

\* C21: map(f) (= reAnnotateS(f)) on a SimpleDocStream rewrites only the
\* annotations of SAnnPush nodes: the result has the same sequence of node
\* kinds, characters, texts and indentations as the input, every SAnnPop is
\* kept, and map(identity)(s) equals s.
C21_MapRewritesOnlyAnnotations ==
  IsRendered("map") =>
    /\ Shape(laidOut) = Shape(theStream)
    /\ operand = identity => laidOut = theStream

\* What reAnnotateS does: it rewrites the annotations of the SAnnPush nodes
\* and leaves out every SAnnPop; the other nodes are kept in order.
C21_MapDropsEveryPop ==
  IsRendered("map") =>
    /\ Shape(laidOut) = Shape(WithoutPops(theStream))
    /\ ~HasNode(laidOut, {"SAnnPop"})
    /\ operand = identity => laidOut = WithoutPops(theStream)
    /\ rendered = renderS(theStream)

C21_Witness ==
  /\ IsRendered("map")
  /\ operand = identity
  /\ theStream = SAnnPush("ann", SChar(<<"a">>, SAnnPop(SEmpty)))
  /\ laidOut = SAnnPush("ann", SChar(<<"a">>, SEmpty))

\* the declared variants of each sum
DeclaredVariants ==
  [PageWidth |-> {"AvailablePerLine", "Unbounded"},
   Doc |-> {"Fail", "Empty", "Char", "Text", "Line", "FlatAlt", "Cat", "Nest", "Union",
            "Column", "WithPageWidth", "Nesting", "Annotated"},
   SimpleDocStream |-> {"SFail", "SEmpty", "SChar", "SText", "SLine", "SAnnPush",
                        "SAnnPop"},
   LayoutPipeline |-> {"Nil", "Cons", "UndoAnn"},
   FlattenResult |-> {"Flattened", "AlreadyFlat", "NeverFlat"}]

\* C22: the destructors of the tagged sums (PageWidth, Doc, SimpleDocStream,
\* LayoutPipeline, FlattenResult) raise an error when applied to a value whose
\* tag is not one of the declared variants, and for a declared variant they
\* call exactly the handler of that variant.
C22_DestructorsRaiseOnUnknownTag ==
  algorithm = "match" =>
    IF tagOf(operand) \in DeclaredVariants[lastOp]
    THEN ~rendered.threw /\ rendered.value.handler = operand.tag
    ELSE rendered = Thrown

C22_Witness ==
  /\ algorithm = "match"
  /\ lastOp = "Doc"
  /\ operand = <<>>
  /\ rendered = Thrown

C22_HandlerWitness ==
  /\ algorithm = "match"
  /\ lastOp = "LayoutPipeline"
  /\ operand = Cons(0, Empty, Nil)
  /\ rendered = Returned(Called("Cons", <<0, Empty, Nil>>))

\* the minimal nesting level of a fit check of layoutSmart, from the arguments
\* of the call
MinNestingLevelOf(call) ==
  IF call.initialIndentY.tag = "Some"
  THEN min(call.initialIndentY.value, call.currentColumn)
  ELSE call.currentColumn

\* a fit check that, at a line break indented deeper than minNestingLevel,
\* continues on the rest with the width lineWidth - i
RECURSIVE ContinuesWithLineWidthLessIndent(_, _, _, _)
ContinuesWithLineWidthLessIndent(lineWidth, minNestingLevel, w, stream) ==
  IF w < 0 THEN FALSE
  ELSE CASE stream.tag = "SFail" -> FALSE
         [] stream.tag = "SEmpty" -> TRUE
         [] stream.tag = "SChar" ->
              ContinuesWithLineWidthLessIndent(lineWidth, minNestingLevel, w - 1,
                                               stream.stream)
         [] stream.tag = "SText" ->
              ContinuesWithLineWidthLessIndent(lineWidth, minNestingLevel,
                                               w - Len(stream.text), stream.stream)
         [] stream.tag = "SLine" ->
              IF minNestingLevel < stream.indentation
              THEN ContinuesWithLineWidthLessIndent(lineWidth, minNestingLevel,
                                                    lineWidth - stream.indentation,
                                                    stream.stream)
              ELSE TRUE
         [] stream.tag \in {"SAnnPush", "SAnnPop"} ->
              ContinuesWithLineWidthLessIndent(lineWidth, minNestingLevel, w,
                                               stream.stream)

SmartCall == algorithm = "fits" /\ operand.fits.kind = "Smart"

AvailableWidthOf(call) ==
  remainingWidth(call.lineWidth, call.ribbonFraction, call.lineIndent,
                 call.currentColumn)

\* C23: in the fit check of layoutSmart on AvailablePerLine(lineWidth, _), on
\* reaching SLine(i, r) the predicate continues on r with the available width
\* lineWidth - i when minNestingLevel < i and returns true when
\* i <= minNestingLevel, where minNestingLevel is
\* min(initialIndentOfAlternative, currentColumn) when the alternative starts
\* with a line break and currentColumn otherwise.
C23_SmartContinuesWithLineWidthLessIndent ==
  SmartCall =>
    rendered = ContinuesWithLineWidthLessIndent(operand.lineWidth,
                                                MinNestingLevelOf(operand),
                                                AvailableWidthOf(operand), theStream)

\* C23, as the code behaves: on a stream that begins with SLine(i, r), checked
\* with an available width that is not negative, the predicate returns true when
\* i <= minNestingLevel, returns false when minNestingLevel < i < lineWidth, and
\* continues on r with the width i - lineWidth when minNestingLevel < i and
\* lineWidth <= i.
C23_SmartContinuesWithIndentLessLineWidth ==
  (SmartCall /\ theStream.tag = "SLine" /\ AvailableWidthOf(operand) >= 0) =>
    LET i == theStream.indentation
        lineWidth == operand.lineWidth
    IN  CASE i <= MinNestingLevelOf(operand) -> rendered = TRUE
          [] MinNestingLevelOf(operand) < i /\ i < lineWidth -> rendered = FALSE
          [] OTHER ->
               rendered = goSmart(lineWidth, MinNestingLevelOf(operand),
                                  i - lineWidth, theStream.stream)

C23_Witness ==
  /\ SmartCall
  /\ operand.lineWidth = 3
  /\ operand.ribbonFraction = <<1, 1>>
  /\ operand.lineIndent = 0
  /\ operand.currentColumn = 0
  /\ operand.initialIndentY = none
  /\ theStream = SLine(2, SChar(<<"a">>, SEmpty))
  /\ rendered = FALSE

C23_WideIndentWitness ==
  /\ SmartCall
  /\ operand.lineWidth = 1
  /\ operand.currentColumn = 0
  /\ operand.lineIndent = 0
  /\ operand.ribbonFraction = <<1, 1>>
  /\ theStream = SLine(2, SChar(<<"a">>, SEmpty))
  /\ rendered = TRUE

\* the first node of a stream behind the leading nodes with a tag in skipped
RECURSIVE Behind(_, _)
Behind(skipped, stream) ==
  IF stream.tag \in skipped THEN Behind(skipped, stream.stream) ELSE stream

IndentationAt(node) ==
  IF node.tag = "SLine" THEN some(node.indentation) ELSE none

\* C25, as stated: initialIndentation skips leading SChar, SText, SAnnPush and
\* SAnnPop nodes, returns Some(i) at the first SLine(i, _) and None when it
\* reaches SFail or SEmpty first.
C25_AsStated ==
  algorithm = "initialIndentation" =>
    rendered = IndentationAt(Behind({"SChar", "SText", "SAnnPush", "SAnnPop"}, theStream))

\* C25: initialIndentation skips leading SAnnPush and SAnnPop nodes only; it
\* returns Some(i) when the first other node is SLine(i, _) and None when the
\* first other node is SChar, SText, SFail or SEmpty.
C25_InitialIndentationSkipsMarkersOnly ==
  algorithm = "initialIndentation" =>
    rendered = IndentationAt(Behind({"SAnnPush", "SAnnPop"}, theStream))

C25_Witness ==
  /\ algorithm = "initialIndentation"
  /\ theStream = SChar(<<"a">>, SLine(2, SEmpty))
  /\ rendered = none

C25_MarkerWitness ==
  /\ algorithm = "initialIndentation"
  /\ theStream = SAnnPush("ann", SAnnPop(SLine(2, SEmpty)))
  /\ rendered = some(2)

ReactiveTags == {"Column", "WithPageWidth", "Nesting"}

ChangesCalled == lastOp = "changesUponFlattening" /\ operand.tag \in ReactiveTags

\* C24, as stated: for the reactive nodes Column(f), WithPageWidth(f) and
\* Nesting(f), changesUponFlattening returns Flattened of a node of the same
\* variant with the producer flatten after f, so that the producer receives
\* the same context value (column, page width, nesting level) as before; a
\* group of a document whose producers give text without line breaks
\* therefore renders as the document itself.
C24_ReactiveKindKept ==
  /\ ChangesCalled =>
       built = Flattened([tag |-> operand.tag, react |-> flowFlatten(operand.react)])
  /\ (algorithm = "layoutPretty" /\ lastOp = "group") =>
       rendered = renderS(layoutPretty(operand, options))

\* C24, as the code behaves: changesUponFlattening returns
\* Flattened(Column(flatten after f)) for Column(f) and for Nesting(f), and
\* Flattened(WithPageWidth(flatten after f)) for WithPageWidth(f).
C24_NestingBecomesColumn ==
  ChangesCalled =>
    built = Flattened([tag |-> IF operand.tag = "Nesting" THEN "Column" ELSE operand.tag,
                       react |-> flowFlatten(operand.react)])

C24_Witness ==
  /\ ChangesCalled
  /\ operand = Nesting(textReact(<<"n">>))
  /\ built = Flattened(Column(flowFlatten(textReact(<<"n">>))))

\* group(nest(2)(nesting((l) => text(`n${l}`)))) renders n0, the document
\* itself renders n2
C24_RenderedWitness ==
  /\ algorithm = "layoutPretty"
  /\ lastOp = "group"
  /\ operand = Nest(2, Nesting(textReact(<<"n">>)))
  /\ rendered = Returned(<<"n", "0">>)
  /\ renderS(layoutPretty(operand, options)) = Returned(<<"n", "2">>)

\* the indentations of the pipeline frames in which the Line nodes of a
\* document without Union and reactive nodes are laid out, in order, when the
\* document is laid out in a frame of indentation i: i plus the indents of the
\* enclosing Nest nodes
RECURSIVE FrameIndents(_, _)
FrameIndents(doc, i) ==
  CASE doc.tag = "Line" -> <<i>>
    [] doc.tag = "Cat" -> FrameIndents(doc.x, i) \o FrameIndents(doc.y, i)
    [] doc.tag = "Nest" -> FrameIndents(doc.doc, i + doc.indent)
    [] doc.tag = "FlatAlt" -> FrameIndents(doc.x, i)
    [] doc.tag = "Annotated" -> FrameIndents(doc.doc, i)
    [] OTHER -> <<>>

\* the SLine nodes of a stream, in order
LineNodes(stream) ==
  LET IsLine(node) == node.tag = "SLine"
  IN  SelectSeq(Nodes(stream), IsLine)

LaidOutByBest == algorithm \in {"layoutUnbounded", "layoutPretty", "layoutSmart"}

\* C26: in the stream of layoutUnbounded, layoutPretty or layoutSmart an SLine
\* whose immediate successor is SEmpty or SLine has indentation 0, and every
\* other SLine has the indentation of its pipeline frame, which is the sum of
\* the indents of the Nest nodes that enclose its Line (stated for the frames
\* of documents without Union and reactive nodes, where that sum is fixed by
\* the document).
C26_BlankLinesNotIndented ==
  LaidOutByBest =>
    LET nodes == LineNodes(laidOut)
        frames == FrameIndents(theDoc, 0)
    IN  \A k \in DOMAIN nodes :
          IF nodes[k].stream.tag \in {"SEmpty", "SLine"}
          THEN nodes[k].indentation = 0
          ELSE DocTags(theDoc) \cap ({"Union"} \cup Reactive) = {} =>
                 nodes[k].indentation = frames[k]

C26_Witness ==
  /\ LaidOutByBest
  /\ theDoc = Nest(2, Cat(Line, Char(<<"a">>)))
  /\ laidOut = SLine(2, SChar(<<"a">>, SEmpty))

C26_LastLineWitness ==
  /\ algorithm = "layoutSmart"
  /\ theDoc = Nest(2, Cat(Char(<<"a">>), Line))
  /\ laidOut = SChar(<<"a">>, SLine(0, SEmpty))

\* the Nest indents of a document, the functions of reactive nodes aside
RECURSIVE NestIndentsOf(_)
NestIndentsOf(doc) ==
  CASE doc.tag \in {"FlatAlt", "Cat", "Union"} -> NestIndentsOf(doc.x) \cup NestIndentsOf(doc.y)
    [] doc.tag = "Nest" -> {doc.indent} \cup NestIndentsOf(doc.doc)
    [] doc.tag = "Annotated" -> NestIndentsOf(doc.doc)
    [] OTHER -> {}

\* the number of characters of the rendering of a stream in which each
\* SLine(i, _) gives a line break and i spaces, no space for a negative i
RECURSIVE LengthWhenRendered(_)
LengthWhenRendered(stream) ==
  CASE stream.tag \in {"SFail", "SEmpty"} -> 0
    [] stream.tag = "SChar" -> Len(stream.char) + LengthWhenRendered(stream.stream)
    [] stream.tag = "SText" -> Len(stream.text) + LengthWhenRendered(stream.stream)
    [] stream.tag = "SLine" ->
         1 + (IF stream.indentation < 0 THEN 0 ELSE stream.indentation)
           + LengthWhenRendered(stream.stream)
    [] OTHER -> LengthWhenRendered(stream.stream)

LaidOutByAny ==
  /\ lastOp = "render"
  /\ algorithm \in {"layoutUnbounded", "layoutPretty", "layoutSmart", "layoutCompact"}

\* C27, as stated: every SLine in a stream produced by a layout entry point
\* has an indentation of at least 0, also for documents with a negative Nest
\* indent, so that renderS emits exactly that many spaces after the line break.
C27_IndentationNeverNegative ==
  LaidOutByAny =>
    \A k \in DOMAIN Indentations(laidOut) : Indentations(laidOut)[k] >= 0

\* C27: the indentation of an SLine is at least 0 when the document has no
\* negative Nest indent (and no reactive node); with a negative Nest indent it
\* can be negative, and renderS then emits no space after the line break: the
\* rendering has, for each SLine(i, _), a line break and max(i, 0) spaces.
C27_NegativeIndentationRendersNoSpace ==
  LaidOutByAny =>
    /\ (DocTags(theDoc) \cap Reactive = {} /\ \A j \in NestIndentsOf(theDoc) : j >= 0) =>
         \A k \in DOMAIN Indentations(laidOut) : Indentations(laidOut)[k] >= 0
    /\ ~rendered.threw => Len(rendered.value) = LengthWhenRendered(laidOut)

C27_Witness ==
  /\ LaidOutByAny
  /\ theDoc = Nest(-1, Cat(Line, Char(<<"a">>)))
  /\ laidOut = SLine(-1, SChar(<<"a">>, SEmpty))
  /\ rendered = Returned(<<"\n", "a">>)

\* the position of the SAnnPush that the SAnnPop at position k of a sequence
\* of nodes closes: the nearest one before k with as many SAnnPush as SAnnPop
\* nodes strictly between; 0 when no SAnnPush is open at k
OpenerOf(nodes, k) ==
  LET Count(tag, from, to) == Cardinality({m \in from..to : nodes[m].tag = tag})
      openers == {j \in 1..(k - 1) :
                    /\ nodes[j].tag = "SAnnPush"
                    /\ Count("SAnnPush", j + 1, k - 1) = Count("SAnnPop", j + 1, k - 1)
                    /\ \A m \in (j + 1)..(k - 1) :
                         Count("SAnnPop", j + 1, m) <= Count("SAnnPush", j + 1, m)}
  IN  IF openers = {} THEN 0 ELSE CHOOSE j \in openers : \A other \in openers : other <= j

\* whether alterAnnotationS(f) is to keep the node at position k
KeptByAlter(f, nodes, k) ==
  CASE nodes[k].tag = "SAnnPush" -> callAlter(f, nodes[k].annotation).tag = "Some"
    [] nodes[k].tag = "SAnnPop" ->
         callAlter(f, nodes[OpenerOf(nodes, k)].annotation).tag = "Some"
    [] OTHER -> TRUE

\* a node without its successor
Label(node) ==
  CASE node.tag = "SChar" -> <<"SChar", node.char>>
    [] node.tag = "SText" -> <<"SText", node.text>>
    [] node.tag = "SLine" -> <<"SLine", node.indentation>>
    [] node.tag = "SAnnPush" -> <<"SAnnPush", node.annotation>>
    [] OTHER -> <<node.tag>>

\* the nodes alterAnnotationS(f) is to give for a sequence of nodes in which
\* every SAnnPop closes an SAnnPush
RECURSIVE AlteredFrom(_, _, _)
AlteredFrom(f, nodes, k) ==
  IF k > Len(nodes) THEN <<>>
  ELSE (IF ~KeptByAlter(f, nodes, k) THEN <<>>
        ELSE IF nodes[k].tag = "SAnnPush"
             THEN <<<<"SAnnPush", callAlter(f, nodes[k].annotation).value>>>>
             ELSE <<Label(nodes[k])>>)
       \o AlteredFrom(f, nodes, k + 1)

Labels(stream) == [k \in DOMAIN Nodes(stream) |-> Label(Nodes(stream)[k])]

\* C28: alterAnnotationS(f) keeps the annotation markers paired: it drops an
\* SAnnPop exactly when the SAnnPush it closes was dropped (f gave none for its
\* annotation), replaces the annotation of a kept SAnnPush by the value of f,
\* leaves SChar, SText and SLine nodes unchanged and in order, and raises an
\* error on an SAnnPop that closes no SAnnPush.
C28_AlterKeepsMarkersPaired ==
  algorithm = "alterAnnotationS" =>
    IF PopsNeverExceedPushes(theStream)
    THEN /\ ~built.threw
         /\ Labels(built.value) = AlteredFrom(operand, Nodes(theStream), 1)
         /\ PopsNeverExceedPushes(built.value)
         /\ AllPushesClosed(theStream) => AllPushesClosed(built.value)
    ELSE built = Thrown

C28_Witness ==
  /\ algorithm = "alterAnnotationS"
  /\ operand = keepOnly
  /\ theStream = SAnnPush("keep", SAnnPush("drop", SAnnPop(SAnnPop(SEmpty))))
  /\ built = Returned(SAnnPush("kept", SAnnPop(SEmpty)))

C28_RaisedWitness ==
  /\ algorithm = "alterAnnotationS"
  /\ theStream = SChar(<<"a">>, SAnnPop(SEmpty))
  /\ built = Thrown

\* the answer of the fitting predicate of layoutPretty to the call that was
\* made of the fitting predicate of layoutSmart
PrettyOnSameCall ==
  callFits(fitsOfPretty(operand.lineWidth, operand.ribbonFraction), operand.lineIndent,
           operand.currentColumn, operand.initialIndentY, theStream)

\* C30: the fitting predicate of layoutSmart is at least as strict as that of
\* layoutPretty: for every AvailablePerLine page width, line indent, current
\* column, initial indentation of the alternative and stream, when the
\* predicate of layoutSmart accepts the stream the predicate of layoutPretty
\* accepts it too.
C30_SmartAcceptsOnlyWhatPrettyAccepts ==
  (SmartCall /\ rendered = TRUE) => PrettyOnSameCall = TRUE

C30_Witness ==
  /\ SmartCall
  /\ rendered = TRUE
  /\ operand.lineWidth = 3
  /\ theStream = SText(<<"a", "b">>, SLine(0, SChar(<<"a">>, SEmpty)))
  /\ PrettyOnSameCall = TRUE

\* a stream the predicate of layoutPretty accepts and that of layoutSmart
\* rejects
C30_StricterWitness ==
  /\ SmartCall
  /\ rendered = FALSE
  /\ operand.lineWidth = 3
  /\ theStream = SChar(<<"a">>, SLine(2, SText(<<"a", "b">>, SEmpty)))
  /\ PrettyOnSameCall = TRUE

\* The stream of best with the current column of each call written into it:
\* an SChar or SText node holds the cc at which it was emitted, an SLine node
\* the indentation of its frame, with which best goes on as cc, and a node
\* "Called" or "Fits" stands before the part of the stream that was laid out
\* after a call of the producer of a Column, or chosen by a call of the fitting
\* predicate, with the cc of that call.
RECURSIVE Untraced(_)
Untraced(t) ==
  CASE t.tag \in {"SFail", "SEmpty"} -> t
    [] t.tag = "SChar" -> SChar(t.char, Untraced(t.stream))
    [] t.tag = "SText" -> SText(t.text, Untraced(t.stream))
    [] t.tag = "SLine" -> SLine(t.indentation, Untraced(t.stream))
    [] t.tag = "SAnnPush" -> SAnnPush(t.annotation, Untraced(t.stream))
    [] t.tag = "SAnnPop" -> SAnnPop(Untraced(t.stream))
    [] t.tag \in {"Called", "Fits"} -> Untraced(t.stream)

RECURSIVE TracedBest(_, _, _, _, _)
TracedBest(fits, pageWidth, nl, cc, pipeline) ==
  IF pipeline.tag = "Nil" THEN SEmpty
  ELSE IF pipeline.tag = "UndoAnn"
  THEN [tag |-> "SAnnPop", stream |-> TracedBest(fits, pageWidth, nl, cc, pipeline.pipeline)]
  ELSE
    LET i == pipeline.indentation
        d == pipeline.document
        ds == pipeline.pipeline
        go(c, p) == TracedBest(fits, pageWidth, nl, c, p)
    IN  CASE d.tag = "Fail" -> SFail
          [] d.tag = "Empty" -> go(cc, ds)
          [] d.tag = "Char" ->
               [tag |-> "SChar", char |-> d.char, cc |-> cc, stream |-> go(cc + 1, ds)]
          [] d.tag = "Text" ->
               [tag |-> "SText", text |-> d.text, cc |-> cc,
                stream |-> go(cc + Len(d.text), ds)]
          [] d.tag = "Line" ->
               LET x == TracedBest(fits, pageWidth, i, i, ds)
               IN  [tag |-> "SLine", indentation |-> bestLine(i, Untraced(x)).indentation,
                    frame |-> i, stream |-> x]
          [] d.tag = "FlatAlt" -> go(cc, Cons(i, d.x, ds))
          [] d.tag = "Cat" -> go(cc, Cons(i, d.x, Cons(i, d.y, ds)))
          [] d.tag = "Nest" -> go(cc, Cons(i + d.indent, d.doc, ds))
          [] d.tag = "Union" ->
               LET x == go(cc, Cons(i, d.x, ds))
                   y == go(cc, Cons(i, d.y, ds))
               IN  [tag |-> "Fits", cc |-> cc,
                    stream |-> IF selectNicer(fits, nl, cc, Untraced(x), Untraced(y))
                                    = Untraced(x)
                               THEN x ELSE y]
          [] d.tag = "Column" ->
               [tag |-> "Called", cc |-> cc,
                stream |-> go(cc, Cons(i, Apply(d.react, cc), ds))]
          [] d.tag = "WithPageWidth" -> go(cc, Cons(i, Apply(d.react, pageWidth), ds))
          [] d.tag = "Nesting" -> go(cc, Cons(i, Apply(d.react, i), ds))
          [] d.tag = "Annotated" ->
               [tag |-> "SAnnPush", annotation |-> d.annotation,
                stream |-> go(cc, Cons(i, d.doc, UndoAnn(ds)))]

\* the traced stream of the last layout of the document
TracedLayout ==
  LET fits == IF options.tag = "Unbounded" THEN fitsOfUnbounded
              ELSE IF algorithm = "layoutPretty"
                   THEN fitsOfPretty(options.lineWidth, options.ribbonFraction)
                   ELSE fitsOfSmart(options.lineWidth, options.ribbonFraction)
  IN  TracedBest(fits, options, 0, 0, Cons(0, theDoc, Nil))

\* Whether in a traced stream every cc of the given kinds of nodes is the
\* number of characters that renderS has placed on the current line, placed
\* being the number placed so far; on a line that is left empty (its SLine
\* stands before SEmpty or another SLine and has indentation 0) the cc of the
\* kinds in framed is compared with the indentation of the frame instead.
RECURSIVE ColumnsAgree(_, _, _, _, _)
ColumnsAgree(t, placed, frame, kinds, framed) ==
  CASE t.tag \in {"SFail", "SEmpty"} -> TRUE
    [] t.tag = "SChar" ->
         /\ "SChar" \in kinds => t.cc = placed
         /\ ColumnsAgree(t.stream, placed + Len(t.char), placed + Len(t.char), kinds, framed)
    [] t.tag = "SText" ->
         /\ "SText" \in kinds => t.cc = placed
         /\ ColumnsAgree(t.stream, placed + Len(t.text), placed + Len(t.text), kinds, framed)
    [] t.tag = "SLine" ->
         ColumnsAgree(t.stream, IF t.indentation < 0 THEN 0 ELSE t.indentation, t.frame,
                      kinds, framed)
    [] t.tag \in {"SAnnPush", "SAnnPop"} ->
         ColumnsAgree(t.stream, placed, frame, kinds, framed)
    [] t.tag \in {"Called", "Fits"} ->
         /\ t.tag \in kinds => t.cc = (IF t.tag \in framed THEN frame ELSE placed)
         /\ ColumnsAgree(t.stream, placed, frame, kinds, framed)

\* every Nest indent of the document, those in the documents of its align
\* nodes included, is at least 0
RECURSIVE NestingNeverNegative(_)
NestingNeverNegative(doc) ==
  LET InReact(f) == IF f.fn = "flowFlatten" THEN NestingNeverNegative(Column(f.f))
                    ELSE NestingNeverNegative(f.doc)
  IN  CASE doc.tag \in {"FlatAlt", "Cat", "Union"} ->
             NestingNeverNegative(doc.x) /\ NestingNeverNegative(doc.y)
        [] doc.tag = "Nest" -> doc.indent >= 0 /\ NestingNeverNegative(doc.doc)
        [] doc.tag = "Annotated" -> NestingNeverNegative(doc.doc)
        [] doc.tag \in Reactive -> InReact(doc.react)
        [] OTHER -> TRUE

BestTraced ==
  /\ lastOp = "render"
  /\ LaidOutByBest
  /\ CharsAreSingle(theDoc)
  /\ NestingNeverNegative(theDoc)

\* C29, as stated: during best, for a document whose Char nodes hold one
\* character each and whose nesting never goes negative, cc is the number of
\* characters that renderS has placed on the current output line, indentation
\* included, whenever an SChar or SText is emitted, the producer of a Column is
\* called or the fitting predicate is called.
C29_ColumnIsRenderedColumn ==
  BestTraced =>
    ColumnsAgree(TracedLayout, 0, 0, {"SChar", "SText", "Called", "Fits"}, {})

\* C29: cc is that number whenever an SChar or SText is emitted; when the
\* producer of a Column or the fitting predicate is called, cc is the
\* indentation of the frame of the last Line plus the characters emitted since,
\* which is that number except on a line that the layout leaves empty, whose
\* SLine has indentation 0 whatever the frame is.
C29_ColumnCountsFromFrame ==
  BestTraced =>
    /\ Untraced(TracedLayout) = laidOut
    /\ ColumnsAgree(TracedLayout, 0, 0, {"SChar", "SText"}, {})
    /\ ColumnsAgree(TracedLayout, 0, 0, {"Called", "Fits"}, {"Called", "Fits"})

\* nest(2)(cat(hardLine, softLineBreak)): the fitting predicate is called with
\* cc = 2 on a line that is rendered empty
C29_Witness ==
  /\ BestTraced
  /\ theDoc = Nest(2, Cat(Line, softLineBreak))
  /\ laidOut = SLine(0, SEmpty)
  /\ TracedLayout = [tag |-> "SLine", indentation |-> 0, frame |-> 2,
                     stream |-> [tag |-> "Fits", cc |-> 2, stream |-> SEmpty]]

C29_EmittedWitness ==
  /\ BestTraced
  /\ theDoc = Nest(2, Cat(Line, Text(<<"b", "c">>)))
  /\ TracedLayout = [tag |-> "SLine", indentation |-> 2, frame |-> 2,
                     stream |-> [tag |-> "SText", text |-> <<"b", "c">>, cc |-> 2,
                                 stream |-> SEmpty]]

\* The indentation the layout gives each line break of a document without
\* groups that text follows on its line: the nesting level, which nest raises
\* by its indent and align sets to the column it counts for the start of its
\* document, which is the indentation of the frame of the last line break
\* before (0 when there is none) plus the number of characters put on the line
\* since.
RECURSIVE Counted(_, _, _, _)
Counted(doc, level, frame, since) ==
  CASE doc.tag = "Char" -> [indents |-> <<>>, frame |-> frame, since |-> since + 1]
    [] doc.tag = "Text" ->
         [indents |-> <<>>, frame |-> frame, since |-> since + Len(doc.text)]
    [] doc.tag = "Line" -> [indents |-> <<level>>, frame |-> level, since |-> 0]
    [] doc.tag = "FlatAlt" -> Counted(doc.x, level, frame, since)
    [] doc.tag = "Cat" ->
         LET l == Counted(doc.x, level, frame, since)
             r == Counted(doc.y, level, l.frame, l.since)
         IN  [indents |-> l.indents \o r.indents, frame |-> r.frame, since |-> r.since]
    [] doc.tag = "Nest" -> Counted(doc.doc, level + doc.indent, frame, since)
    [] doc.tag = "Column" -> Counted(doc.react.doc, frame + since, frame, since)
    [] OTHER -> [indents |-> <<>>, frame |-> frame, since |-> since]

\* whether a traced stream has a line that is left empty and rendered without
\* the indentation of its frame
RECURSIVE LeavesFrameUnindented(_)
LeavesFrameUnindented(t) ==
  CASE t.tag \in {"SFail", "SEmpty"} -> FALSE
    [] t.tag = "SLine" -> t.indentation # t.frame \/ LeavesFrameUnindented(t.stream)
    [] OTHER -> LeavesFrameUnindented(t.stream)

C12_StartColumnWitness ==
  /\ HangRendered
  /\ theDoc = nest(2, Cat(sit, align(vsep(<<dolor, sit>>))))
  /\ Indentations(laidOut) = <<3>>
  /\ ColumnsAgree(TracedLayout, 0, 0, {"Called"}, {})

====
